---------------------------- MODULE Spec2Model ----------------------------
(***************************************************************************)
(* Model of the SQL safety pipeline of the hospital NL-to-SQL assistant:   *)
(* the SQL guard (app/sql_guard.py), the chat orchestrator (app/chat.py),  *)
(* the catalogs it validates against (app/catalog.py,                      *)
(* app/schema_catalog.py) and the role filter of POST /api/chat            *)
(* (app/main.py).                                                          *)
(*                                                                         *)
(* A SQL text is modelled by the list of statements it holds; each         *)
(* statement is a syntax tree shaped like the one sqlglot builds (a node   *)
(* has a type, a name, a table qualifier, an alias and keyed children).    *)
(* The character text the keyword filter reads is obtained from the trees  *)
(* by Unparse, as a sequence of word and quote tokens.                     *)
(***************************************************************************)
EXTENDS Integers, Sequences, FiniteSets, TLC

(***************************************************************************)
(* Bounds and program constants                                            *)
(***************************************************************************)
\* requests served in one behaviour of the orchestrator
MaxRequests == 2

\* Settings.sql_max_rows
SQL_MAX_ROWS == 2000

\* the last max_messages messages of a session are the LLM history
HISTORY_WINDOW == 6

(***************************************************************************)
(* Strings: str.upper() and str.lower() on the identifiers that occur      *)
(***************************************************************************)
CasePairs ==
    { <<"ovst", "OVST">>, <<"pt", "PT">>, <<"nosuch", "NOSUCH">>,
      <<"o", "O">>, <<"p", "P">>, <<"d", "D">>, <<"c", "C">>,
      <<"hn", "HN">>, <<"vn", "VN">>, <<"vstdate", "VSTDATE">>,
      <<"fname", "FNAME">>, <<"x", "X">>, <<"nocol", "NOCOL">>,
      <<"select", "SELECT">>, <<"from", "FROM">>, <<"drop", "DROP">>,
      <<"delete", "DELETE">>, <<"table", "TABLE">>, <<"set", "SET">>,
      <<"role", "ROLE">>, <<"count", "COUNT">>, <<"max", "MAX">>,
      <<"a'b", "A'B">>, <<"a", "A">>, <<"b", "B">> }

\* the mixed-case strings that occur, with their lowercase form
MixedCase == { <<"Count", "count">>, <<"Max", "max">> }

lower(s) == IF \E m \in MixedCase : m[1] = s
            THEN (CHOOSE m \in MixedCase : m[1] = s)[2]
            ELSE IF \E p \in CasePairs : p[2] = s
                 THEN (CHOOSE p \in CasePairs : p[2] = s)[1]
                 ELSE s

upper(s) == IF \E p \in CasePairs : p[1] = lower(s)
            THEN (CHOOSE p \in CasePairs : p[1] = lower(s))[2]
            ELSE s

\* int("<digits>") of a LIMIT literal; NoInt stands for the ValueError
NoInt == -1

ParseInt(s) ==
    CASE s = "5" -> 5
      [] s = "10" -> 10
      [] s = "2000" -> 2000
      [] s = "2001" -> 2001
      [] OTHER -> NoInt

(***************************************************************************)
(* Syntax trees (sqlglot.exp.Expression)                                   *)
(***************************************************************************)
Node(type, name, table, alias, kids) ==
    [type |-> type, name |-> name, table |-> table, alias |-> alias,
     kids |-> kids]

Kid(key, node) == [key |-> key, node |-> node]

\* the children stored under one argument key, in order
RECURSIVE ArgsOf(_, _)
ArgsOf(kids, key) ==
    IF kids = <<>> THEN <<>>
    ELSE IF Head(kids).key = key
         THEN <<Head(kids).node>> \o ArgsOf(Tail(kids), key)
         ELSE ArgsOf(Tail(kids), key)

Args(n, key) == ArgsOf(n.kids, key)

HasArg(n, key) == Args(n, key) # <<>>

Arg(n, key) == Head(Args(n, key))

RECURSIVE KidNodes(_)
KidNodes(kids) ==
    IF kids = <<>> THEN <<>> ELSE <<Head(kids).node>> \o KidNodes(Tail(kids))

\* Expression.iter_expressions(): the child nodes in argument order
iter_expressions(n) == KidNodes(n.kids)

\* Expression.bfs(): the node and all its descendants, breadth first
RECURSIVE BfsQueue(_)
BfsQueue(queue) ==
    IF queue = <<>> THEN <<>>
    ELSE <<Head(queue)>> \o BfsQueue(Tail(queue) \o iter_expressions(Head(queue)))

RECURSIVE Filter(_, _)
Filter(seq, types) ==
    IF seq = <<>> THEN <<>>
    ELSE IF Head(seq).type \in types
         THEN <<Head(seq)>> \o Filter(Tail(seq), types)
         ELSE Filter(Tail(seq), types)

\* Expression.find_all(*types)
find_all(n, types) == Filter(BfsQueue(<<n>>), types)

Range(seq) == { seq[i] : i \in 1..Len(seq) }

RECURSIVE KeyedKids(_, _)
KeyedKids(key, nodes) ==
    IF nodes = <<>> THEN <<>>
    ELSE <<Kid(key, Head(nodes))>> \o KeyedKids(key, Tail(nodes))

(***************************************************************************)
(* Tree constructors for the statements used as inputs                     *)
(***************************************************************************)
Column(table, name) == Node("Column", name, table, "", <<>>)
Star == Node("Star", "*", "", "", <<>>)
Literal(text) == Node("Literal", text, "", "", <<>>)
Number(text) == Node("Number", text, "", "", <<>>)
Table(name, alias) == Node("Table", name, "", alias, <<>>)
Alias(e, alias) == Node("Alias", "", "", alias, <<Kid("this", e)>>)
Count(e) == Node("Count", "", "", "", <<Kid("this", e)>>)
Max(e) == Node("Max", "", "", "", <<Kid("this", e)>>)
Case(cond, then, else) ==
    Node("Case", "", "", "",
         <<Kid("ifs", Node("If", "", "", "", <<Kid("this", cond), Kid("true", then)>>)),
           Kid("default", else)>>)
EQ(l, r) == Node("EQ", "", "", "", <<Kid("this", l), Kid("expression", r)>>)
GT(l, r) == Node("GT", "", "", "", <<Kid("this", l), Kid("expression", r)>>)
And(l, r) == Node("And", "", "", "", <<Kid("this", l), Kid("expression", r)>>)
Subquery(sel, alias) == Node("Subquery", "", "", alias, <<Kid("this", sel)>>)
In(e, sel) == Node("In", "", "", "", <<Kid("this", e), Kid("query", Subquery(sel, ""))>>)
From(src) == Node("From", "", "", "", <<Kid("this", src)>>)
Join(src, on) == Node("Join", "", "", "", <<Kid("this", src), Kid("on", on)>>)
Where(cond) == Node("Where", "", "", "", <<Kid("this", cond)>>)
Group(e) == Node("Group", "", "", "", <<Kid("expressions", e)>>)
Distinct == Node("Distinct", "", "", "", <<>>)
Limit(text) == Node("Limit", "", "", "", <<Kid("expression", Number(text))>>)
CTE(alias, sel) == Node("CTE", "", "", alias, <<Kid("this", sel)>>)
With(cte) == Node("With", "", "", "", <<Kid("expressions", cte)>>)
Union(l, r) == Node("Union", "", "", "", <<Kid("this", l), Kid("expression", r)>>)
Drop(t) == Node("Drop", "", "", "", <<Kid("this", t)>>)
SetRole(role) == Node("Set", role, "", "", <<>>)
Command(word) == Node("Command", word, "", "", <<>>)

\* a statement the parser cannot parse: a word and an unclosed parenthesis
Garbled(word) == Node("Garbled", word, "", "", <<>>)

\* SELECT exprs FROM src, followed by the optional clauses given in `more`
Select(exprs, src, more) ==
    Node("Select", "", "", "",
         KeyedKids("expressions", exprs) \o <<Kid("from", From(src))>> \o more)


(***************************************************************************)
(* The text of a statement: word and quote tokens (one space apart)        *)
(***************************************************************************)
\* an identifier that is not a plain word is written in double quotes
IdentTokens(name) ==
    IF name = "a'b" THEN <<"\"", "a", "'", "b", "\"">> ELSE <<name>>

RECURSIVE Unparse(_)
RECURSIVE UnparseList(_, _)
UnparseList(nodes, sep) ==
    IF nodes = <<>> THEN <<>>
    ELSE IF Len(nodes) = 1 THEN Unparse(nodes[1])
    ELSE Unparse(nodes[1]) \o sep \o UnparseList(Tail(nodes), sep)

Unparse(n) ==
    LET opt(key) == UnparseList(Args(n, key), <<>>)
        al == IF n.alias = "" THEN <<>> ELSE IdentTokens(n.alias)
    IN CASE n.type = "Column" ->
              (IF n.table = "" THEN <<>> ELSE <<n.table, ".">>) \o IdentTokens(n.name)
         [] n.type = "Star" -> <<"*">>
         [] n.type = "Literal" -> <<"'", n.name, "'">>
         [] n.type = "Number" -> <<n.name>>
         [] n.type = "Table" -> <<n.name>> \o al
         [] n.type = "Alias" -> opt("this") \o <<"AS">> \o al
         [] n.type \in {"Count", "Max"} ->
              <<upper(n.type), "(">> \o opt("this") \o <<")">>
         [] n.type = "Case" ->
              <<"CASE">> \o opt("ifs") \o <<"ELSE">> \o opt("default") \o <<"END">>
         [] n.type = "If" -> <<"WHEN">> \o opt("this") \o <<"THEN">> \o opt("true")
         [] n.type = "EQ" -> opt("this") \o <<"=">> \o opt("expression")
         [] n.type = "GT" -> opt("this") \o <<">">> \o opt("expression")
         [] n.type = "And" -> opt("this") \o <<"AND">> \o opt("expression")
         [] n.type = "Subquery" -> <<"(">> \o opt("this") \o <<")">> \o al
         [] n.type = "In" -> opt("this") \o <<"IN">> \o opt("query")
         [] n.type = "From" -> <<"FROM">> \o opt("this")
         [] n.type = "Join" -> <<"JOIN">> \o opt("this") \o <<"ON">> \o opt("on")
         [] n.type = "Where" -> <<"WHERE">> \o opt("this")
         [] n.type = "Group" -> <<"GROUP", "BY">> \o UnparseList(Args(n, "expressions"), <<",">>)
         [] n.type = "Distinct" -> <<"DISTINCT">>
         [] n.type = "Limit" -> <<"LIMIT">> \o opt("expression")
         [] n.type = "CTE" -> al \o <<"AS", "(">> \o opt("this") \o <<")">>
         [] n.type = "With" -> <<"WITH">> \o UnparseList(Args(n, "expressions"), <<",">>)
         [] n.type = "Union" -> opt("this") \o <<"UNION">> \o opt("expression")
         [] n.type = "Drop" -> <<"DROP", "TABLE">> \o opt("this")
         [] n.type = "Set" -> <<"SET", "ROLE", n.name>>
         [] n.type = "Command" -> <<n.name>>
         [] n.type = "Garbled" -> <<n.name, "(">>
         [] n.type = "Select" ->
              opt("with") \o <<"SELECT">> \o opt("distinct")
              \o UnparseList(Args(n, "expressions"), <<",">>)
              \o opt("from") \o opt("joins") \o opt("where") \o opt("group")
              \o opt("limit")
         [] OTHER -> <<n.type>>

\* A SQL text is the list of the statements it holds, separated by ';'
SqlText(sql) == UnparseList(sql, <<";">>)

(***************************************************************************)
(* Dictionaries table -> columns (dict[str, list[str]], lists without      *)
(* duplicates, kept as sets)                                               *)
(***************************************************************************)
EmptyDict == [k \in {} |-> {}]

Put(d, k, c) ==
    IF k \in DOMAIN d THEN [d EXCEPT ![k] = @ \cup {c}] ELSE d @@ (k :> {c})

Get(d, k) == IF k \in DOMAIN d THEN d[k] ELSE {}

(***************************************************************************)
(* app/sql_guard.py                                                        *)
(***************************************************************************)
\* the single-word members of FORBIDDEN_KEYWORDS
FORBIDDEN_KEYWORDS ==
    { "INSERT", "UPDATE", "DELETE", "DROP", "CREATE", "ALTER",
      "TRUNCATE", "GRANT", "REVOKE", "COPY", "VACUUM", "ANALYZE",
      "CALL", "DO", "MERGE", "EXECUTE", "PREPARE", "DEALLOCATE",
      "COMMIT", "ROLLBACK", "SAVEPOINT", "LOCK", "UNLOCK",
      "RESET", "DISCARD", "LOAD", "UNLOAD" }

PHI_COLUMNS ==
    { "hn", "cid", "passport", "mrn", "national_id", "idcard", "pid",
      "fname", "lname", "mname", "pname", "name", "fullname",
      "firstname", "lastname", "middlename", "prename",
      "phone", "mobile", "tel", "telephone", "email", "fax",
      "address", "addrpart", "moo", "road", "tambon", "amphur",
      "province", "zipcode", "postcode", "homeaddr", "workaddr",
      "dob", "birthdate", "birthday", "bdate",
      "ssn", "social_security", "insurance_id", "member_id" }

\* re.sub(q [^q]* q, qq, text): every span from a quote to the next one
RECURSIVE StripQuoted(_, _)
StripQuoted(toks, q) ==
    IF toks = <<>> THEN <<>>
    ELSE IF Head(toks) = q /\ \E j \in 2..Len(toks) : toks[j] = q
         THEN LET j == CHOOSE j \in 2..Len(toks) :
                         /\ toks[j] = q
                         /\ \A i \in 2..(j - 1) : toks[i] # q
              IN <<"">> \o StripQuoted(SubSeq(toks, j + 1, Len(toks)), q)
         ELSE <<Head(toks)>> \o StripQuoted(Tail(toks), q)

\* TRUE iff a forbidden keyword is found (the error message names it)
quick_keyword_check(sql) ==
    LET text == SqlText(sql)
        upper_sql == [i \in 1..Len(text) |-> upper(text[i])]
        cleaned == StripQuoted(StripQuoted(upper_sql, "'"), "\"")
    IN \E i \in 1..Len(cleaned) :
          \/ cleaned[i] \in FORBIDDEN_KEYWORDS
          \/ /\ i < Len(cleaned)
             /\ cleaned[i] = "SET" /\ cleaned[i + 1] = "ROLE"

extract_tables(parsed) ==
    { upper(t.name) : t \in { t \in Range(find_all(parsed, {"Table"})) : t.name # "" } }

\* alias -> table name; a later Table node overwrites an earlier entry
RECURSIVE AliasFold(_, _)
AliasFold(tables, aliases) ==
    IF tables = <<>> THEN aliases
    ELSE LET t == Head(tables)
             table_name == upper(t.name)
             a1 == IF t.alias # ""
                   THEN (upper(t.alias) :> table_name) @@ aliases
                   ELSE aliases
             a2 == (table_name :> table_name) @@ a1
         IN AliasFold(Tail(tables), IF t.name # "" THEN a2 ELSE aliases)

extract_table_aliases(parsed) ==
    AliasFold(find_all(parsed, {"Table"}), [k \in {} |-> ""])

resolve_column_tables(columns, aliases) ==
    LET real(k) == IF k \in {"_UNKNOWN_", "_STAR_"} THEN k
                   ELSE IF upper(k) \in DOMAIN aliases THEN aliases[upper(k)]
                   ELSE upper(k)
    IN [r \in { real(k) : k \in DOMAIN columns } |->
           UNION { columns[k] : k \in { j \in DOMAIN columns : real(j) = r } }]

AGG_TYPES == {"Count", "Sum", "Avg", "Min", "Max", "ArrayAgg"}

RECURSIVE collect_output_columns(_, _)
RECURSIVE CollectEach(_, _)
CollectEach(exprs, columns) ==
    IF exprs = <<>> THEN columns
    ELSE CollectEach(Tail(exprs), collect_output_columns(Head(exprs), columns))

collect_output_columns(expr, columns) ==
    IF expr.type \in AGG_TYPES THEN columns
    ELSE IF expr.type = "Column"
         THEN Put(columns,
                  IF expr.table # "" THEN upper(expr.table) ELSE "_UNKNOWN_",
                  lower(expr.name))
    ELSE IF expr.type = "Star"
         THEN Put(columns,
                  IF expr.table # "" THEN upper(expr.table) ELSE "_STAR_",
                  "*")
    ELSE CollectEach(iter_expressions(expr), columns)

RECURSIVE CollectSelects(_, _)
CollectSelects(selects, columns) ==
    IF selects = <<>> THEN columns
    ELSE CollectSelects(Tail(selects),
                        CollectEach(Args(Head(selects), "expressions"), columns))

extract_output_columns(parsed) ==
    IF parsed.type = "Select"
    THEN CollectSelects(<<parsed>>, EmptyDict)
    ELSE IF parsed.type = "Union"
    THEN CollectSelects(find_all(parsed, {"Select"}), EmptyDict)
    ELSE IF HasArg(parsed, "this") /\ Arg(parsed, "this").type = "Select"
    THEN CollectSelects(<<Arg(parsed, "this")>>, EmptyDict)
    ELSE EmptyDict

RECURSIVE AllColumnsFold(_, _)
AllColumnsFold(cols, columns) ==
    IF cols = <<>> THEN columns
    ELSE AllColumnsFold(Tail(cols),
            Put(columns,
                IF Head(cols).table # "" THEN upper(Head(cols).table) ELSE "_UNKNOWN_",
                lower(Head(cols).name)))

extract_all_columns(parsed) ==
    AllColumnsFold(find_all(parsed, {"Column"}), EmptyDict)

RECURSIVE ScopeNames(_)
ScopeNames(tables) ==
    IF tables = <<>> THEN <<>>
    ELSE (IF Head(tables).name # ""
          THEN <<upper(IF Head(tables).alias # "" THEN Head(tables).alias
                       ELSE Head(tables).name)>>
          ELSE <<>>) \o ScopeNames(Tail(tables))

RECURSIVE FindAllEach(_, _)
FindAllEach(nodes, types) ==
    IF nodes = <<>> THEN <<>>
    ELSE find_all(Head(nodes), types) \o FindAllEach(Tail(nodes), types)

\* the list from_tables of one SELECT: the tables under FROM, then under JOINs
from_tables(select) ==
    ScopeNames(FindAllEach(Args(select, "from"), {"Table"}))
    \o ScopeNames(FindAllEach(Args(select, "joins"), {"Table"}))

RECURSIVE ResolveFold(_, _, _)
ResolveFold(selects, unknown_cols, resolved) ==
    IF selects = <<>> THEN resolved
    ELSE LET select == Head(selects)
             ft == from_tables(select)
             names == { lower(c.name) :
                          c \in { c \in Range(find_all(select, {"Column"})) :
                                    c.table = "" /\ lower(c.name) \in unknown_cols } }
             r1 == IF Len(ft) = 1 /\ names # {}
                   THEN LET single_table == ft[1]
                            withT == IF single_table \in DOMAIN resolved
                                     THEN [resolved EXCEPT ![single_table] = @ \cup names]
                                     ELSE resolved @@ (single_table :> names)
                        IN [withT EXCEPT !["_UNKNOWN_"] = @ \ names]
                   ELSE resolved
         IN ResolveFold(Tail(selects), unknown_cols, r1)

resolve_unknown_columns_to_tables(columns, parsed) ==
    LET unknown_cols == Get(columns, "_UNKNOWN_")
    IN IF unknown_cols = {} THEN columns
       ELSE LET resolved == ResolveFold(find_all(parsed, {"Select"}), unknown_cols, columns)
            IN IF resolved["_UNKNOWN_"] = {}
               THEN [k \in (DOMAIN resolved) \ {"_UNKNOWN_"} |-> resolved[k]]
               ELSE resolved

has_aggregation(parsed) ==
    \/ find_all(parsed, {"Count", "Sum", "Avg", "Min", "Max"}) # <<>>
    \/ \E s \in Range(find_all(parsed, {"Select"})) : HasArg(s, "group")
    \/ \E s \in Range(find_all(parsed, {"Select"})) : HasArg(s, "distinct")

\* None is NoInt
RECURSIVE FirstLimit(_)
FirstLimit(limits) ==
    IF limits = <<>> THEN NoInt
    ELSE IF /\ HasArg(Head(limits), "expression")
            /\ ParseInt(Arg(Head(limits), "expression").name) # NoInt
         THEN ParseInt(Arg(Head(limits), "expression").name)
         ELSE FirstLimit(Tail(limits))

get_limit_value(parsed) == FirstLimit(find_all(parsed, {"Limit"}))

check_select_star(columns) == \E t \in DOMAIN columns : "*" \in columns[t]


(***************************************************************************)
(* Catalogs: app/catalog.py Catalog (the one the orchestrator loads) and   *)
(* app/schema_catalog.py SchemaCatalog; tables maps an uppercase table     *)
(* name to its columns, a column name to its is_phi flag                   *)
(***************************************************************************)
CatalogTables ==
    ("OVST" :> ("vn" :> FALSE @@ "hn" :> TRUE @@ "vstdate" :> FALSE))
    @@ ("PT" :> ("hn" :> TRUE @@ "fname" :> TRUE @@ "nickname" :> TRUE
                 @@ "regdate" :> FALSE))

NoCatalog == [kind |-> "None", tables |-> [t \in {} |-> [c \in {} |-> FALSE]]]

LoadedCatalog(kind) == [kind |-> kind, tables |-> CatalogTables]

table_exists(catalog, name) == upper(name) \in DOMAIN catalog.tables

column_exists(catalog, table_name, column_name) ==
    /\ upper(table_name) \in DOMAIN catalog.tables
    /\ lower(column_name) \in DOMAIN catalog.tables[upper(table_name)]

validate_sql_references(catalog, tables, columns) ==
    [invalid_tables |-> { t \in tables : ~table_exists(catalog, t) },
     invalid_columns |->
        UNION { { <<t, c>> : c \in { c \in columns[t] : ~column_exists(catalog, t, c) } } :
                t \in { t \in DOMAIN columns : table_exists(catalog, t) } }]

\* the entries of phi_found, as <<table, column>>
check_phi_in_select(columns, catalog) ==
    UNION { { <<t, c>> : c \in { c \in columns[t] :
                \/ lower(c) \in PHI_COLUMNS
                \/ /\ catalog.kind # "None"
                   /\ t \notin {"_UNKNOWN_", "_STAR_"}
                   /\ upper(t) \in DOMAIN catalog.tables
                   /\ lower(c) \in DOMAIN catalog.tables[upper(t)]
                   /\ catalog.tables[upper(t)][lower(c)] } } :
            t \in DOMAIN columns }

RECURSIVE extract_eq_joins(_, _)
extract_eq_joins(expr, table_aliases) ==
    IF expr.type = "EQ"
    THEN LET left == Arg(expr, "this")
             right == Arg(expr, "expression")
             res(t) == IF upper(t) \in DOMAIN table_aliases
                       THEN table_aliases[upper(t)] ELSE upper(t)
         IN IF /\ left.type = "Column" /\ right.type = "Column"
               /\ left.table # "" /\ right.table # ""
               /\ res(left.table) # res(right.table)
            THEN { [left_table |-> res(left.table), left_column |-> lower(left.name),
                    right_table |-> res(right.table), right_column |-> lower(right.name)] }
            ELSE {}
    ELSE IF expr.type = "And"
    THEN extract_eq_joins(Arg(expr, "this"), table_aliases)
         \cup extract_eq_joins(Arg(expr, "expression"), table_aliases)
    ELSE {}

extract_joins(parsed, table_aliases) ==
    UNION { extract_eq_joins(Arg(j, "on"), table_aliases) :
            j \in { j \in Range(find_all(parsed, {"Join"})) : HasArg(j, "on") } }
    \cup
    UNION { extract_eq_joins(Arg(Arg(s, "where"), "this"), table_aliases) :
            s \in { s \in Range(find_all(parsed, {"Select"})) : HasArg(s, "where") } }

\* ValidationResult; error_type "" is None, limit_value NoInt is None;
\* raised is TRUE when the call ends in an exception instead of a result
ValidationResult(valid, error_type) ==
    [valid |-> valid, error_type |-> error_type, raised |-> FALSE,
     tables_used |-> {}, columns_used |-> EmptyDict, all_columns |-> EmptyDict,
     has_aggregation |-> FALSE, has_limit |-> FALSE, limit_value |-> NoInt,
     phi_columns_found |-> {}, joins_checked |-> {}]

\* sqlglot.parse_one raises ParseError: the text holds no statement, or a
\* statement that cannot be parsed
ParseError(sql) == sql = <<>> \/ \E i \in DOMAIN sql : sql[i].type = "Garbled"

\* sqlglot.parse_one: the tree of the first statement of the text
parse_one(sql) == Head(sql)

\* validate_sql from the statement type check on
validate_parsed(parsed, catalog, max_rows, strict_catalog_check, validate_joins) ==
    LET is_valid_select ==
            \/ parsed.type = "Select"
            \/ parsed.type = "Union"
            \/ HasArg(parsed, "this") /\ Arg(parsed, "this").type = "Select"
    IN IF ~is_valid_select
       THEN ValidationResult(FALSE, "ForbiddenStatementError")
       ELSE
       LET tables_used == extract_tables(parsed)
           table_aliases == extract_table_aliases(parsed)
           select_columns == extract_output_columns(parsed)
           all_columns == extract_all_columns(parsed)
           has_agg == has_aggregation(parsed)
           limit_val == get_limit_value(parsed)
           all_columns_resolved ==
               resolve_unknown_columns_to_tables(
                   resolve_column_tables(all_columns, table_aliases), parsed)
           select_columns_resolved ==
               resolve_unknown_columns_to_tables(
                   resolve_column_tables(select_columns, table_aliases), parsed)
           phi_found == check_phi_in_select(select_columns_resolved, catalog)
           columns_for_validation ==
               [t \in (DOMAIN all_columns_resolved) \ {"_UNKNOWN_", "_STAR_"} |->
                    all_columns_resolved[t]]
           refs == validate_sql_references(catalog, tables_used, columns_for_validation)
           extracted_joins == extract_joins(parsed, table_aliases)
           base == [ValidationResult(FALSE, "") EXCEPT !.tables_used = tables_used]
           full == [base EXCEPT !.columns_used = select_columns_resolved,
                                !.all_columns = all_columns_resolved,
                                !.has_aggregation = has_agg]
       IN IF check_select_star(select_columns)
          THEN [base EXCEPT !.error_type = "SelectStarError"]
          ELSE IF phi_found # {}
          THEN [base EXCEPT !.error_type = "PHIExposureError",
                            !.phi_columns_found = phi_found]
          ELSE IF catalog.kind # "None" /\ strict_catalog_check
                  /\ refs.invalid_tables # {}
          THEN [base EXCEPT !.error_type = "UnknownTableError",
                            !.all_columns = all_columns_resolved]
          ELSE IF catalog.kind # "None" /\ strict_catalog_check
                  /\ refs.invalid_columns # {}
          THEN [base EXCEPT !.error_type = "UnknownColumnError",
                            !.all_columns = all_columns_resolved]
          ELSE IF ~has_agg /\ limit_val = NoInt
          THEN [full EXCEPT !.error_type = "MissingLimitError"]
          ELSE IF ~has_agg /\ limit_val > max_rows
          THEN [full EXCEPT !.error_type = "MissingLimitError",
                            !.has_limit = TRUE, !.limit_value = limit_val]
          ELSE IF catalog.kind = "Catalog" /\ validate_joins /\ extracted_joins # {}
          THEN \* Catalog has no validate_join: AttributeError
               [full EXCEPT !.raised = TRUE]
          ELSE [full EXCEPT !.valid = TRUE,
                            !.has_limit = (limit_val # NoInt),
                            !.limit_value = limit_val,
                            !.joins_checked =
                                IF catalog.kind # "None" /\ validate_joins
                                THEN extracted_joins ELSE {}]

\* a variant that parses before it looks for forbidden keywords
validate_sql_ParsesFirst(sql, catalog, max_rows, strict_catalog_check, validate_joins) ==
    IF ParseError(sql)
    THEN ValidationResult(FALSE, "SQLParseError")
    ELSE IF quick_keyword_check(sql)
    THEN ValidationResult(FALSE, "ForbiddenKeywordError")
    ELSE validate_parsed(parse_one(sql), catalog, max_rows, strict_catalog_check,
                         validate_joins)

validate_sql(sql, catalog, max_rows, strict_catalog_check, validate_joins) ==
    IF quick_keyword_check(sql)
    THEN ValidationResult(FALSE, "ForbiddenKeywordError")
    ELSE IF ParseError(sql)
    THEN ValidationResult(FALSE, "SQLParseError")
    ELSE validate_parsed(parse_one(sql), catalog, max_rows, strict_catalog_check,
                         validate_joins)


(***************************************************************************)
(* Inputs: the SQL texts the guard is given                                *)
(***************************************************************************)
col(name) == Column("", name)

Projections ==
    { <<col("vn")>>,
      <<col("hn")>>,
      <<col("HN"), col("vstdate")>>,
      <<Count(Star)>>,
      <<Alias(Count(col("hn")), "x")>>,
      <<Alias(Case(GT(col("vstdate"), Literal("2024")), col("hn"), Literal("OLD")), "x")>>,
      <<Alias(col("hn"), "x"), col("vstdate")>>,
      <<Column("o", "vn")>>,
      <<Column("o", "hn")>>,
      <<Column("o", "nocol")>>,
      <<col("nocol")>>,
      <<col("nickname")>>,
      <<Star>>,
      <<col("x")>>,
      <<Column("d", "x")>> }

InnerPhi == Select(<<Alias(col("hn"), "x")>>, Table("pt", ""), <<>>)

Sources ==
    { Table("ovst", ""), Table("ovst", "o"), Table("pt", ""),
      Table("nosuch", ""), Subquery(InnerPhi, "d") }

JoinPt ==
    <<Kid("joins", Join(Table("pt", "p"), EQ(Column("o", "hn"), Column("p", "hn"))))>>

WhereOpts ==
    { <<>>,
      <<Kid("where", Where(In(col("hn"),
            Select(<<col("hn")>>, Table("pt", ""), <<>>))))>>,
      <<Kid("where", Where(In(col("vn"),
            Select(<<col("vn")>>, Table("ovst", ""), <<Kid("limit", Limit("5"))>>))))>>,
      <<Kid("where", Where(EQ(col("vstdate"), Literal("delete"))))>> }

TailOpts ==
    { <<>>,
      <<Kid("limit", Limit("10"))>>,
      <<Kid("limit", Limit("2000"))>>,
      <<Kid("limit", Limit("2001"))>>,
      <<Kid("limit", Limit("ALL"))>>,
      <<Kid("group", Group(col("vstdate")))>>,
      <<Kid("distinct", Distinct), Kid("limit", Limit("2001"))>> }

WithC == <<Kid("with", With(CTE("c", InnerPhi)))>>

Selects ==
    { Select(p, src, w \o t) :
        p \in Projections, src \in Sources, w \in WhereOpts, t \in TailOpts }
    \cup
    { Select(p, Table("OVST", "o"), JoinPt \o w \o t) :
        p \in Projections, w \in WhereOpts, t \in TailOpts }
    \cup
    { Select(p, Table("c", ""), t \o WithC) : p \in Projections, t \in TailOpts }

\* named statements
SelVn == Select(<<col("vn")>>, Table("ovst", ""), <<Kid("limit", Limit("10"))>>)
SelCount == Select(<<Count(Star)>>, Table("ovst", ""), <<>>)
SelHn == Select(<<col("hn")>>, Table("pt", ""), <<Kid("limit", Limit("10"))>>)
SelNoLimit == Select(<<col("vn")>>, Table("ovst", ""), <<>>)
SelNoSuch == Select(<<col("vn")>>, Table("nosuch", ""), <<Kid("limit", Limit("10"))>>)
SelStar == Select(<<Star>>, Table("ovst", ""), <<Kid("limit", Limit("10"))>>)
SelHidden ==
    Select(<<Alias(Count(col("vn")), "a'b")>>, Table("ovst", ""), <<>>)

\* PHI used for filtering only: in a filter subquery, and in a CTE that only
\* a filter subquery reads
SelFilter ==
    Select(<<Count(Star)>>, Table("ovst", ""),
           <<Kid("where", Where(In(col("hn"),
                 Select(<<col("hn")>>, Table("pt", ""), <<>>))))>>)

SelCteFilter ==
    Select(<<Count(Star)>>, Table("ovst", ""),
           <<Kid("where", Where(In(col("hn"),
                 Select(<<col("hn")>>, Table("c", ""), <<>>)))),
             Kid("with", With(CTE("c", Select(<<col("hn")>>, Table("pt", ""), <<>>))))>>)

\* a filter subquery with a condition of its own on its own table
SelNestedFilter ==
    Select(<<Count(Star)>>, Table("ovst", ""),
           <<Kid("where", Where(In(col("hn"),
                 Select(<<col("hn")>>, Table("pt", ""),
                        <<Kid("where", Where(GT(col("regdate"), Literal("2020"))))>>))))>>)

\* a count over a CTE that reads a table of the catalog
SelCteCount ==
    Select(<<Count(Star)>>, Table("c", ""),
           <<Kid("with", With(CTE("c",
                 Select(<<col("vn"), col("vstdate")>>, Table("ovst", ""),
                        <<Kid("where", Where(GT(col("vstdate"), Literal("2024"))))>>))))>>)

\* texts of several statements, set operations, other statement kinds
OtherTexts ==
    { <<>>,
      <<Drop(Table("ovst", ""))>>,
      <<SetRole("admin")>>,
      <<Command("SHOW")>>,
      <<Garbled("SELECT")>>,
      <<Garbled("DROP")>>,
      <<SelStar, Garbled("SELECT")>>,
      <<SelCount, Drop(Table("ovst", ""))>>,
      <<SelCount, SelHn>>,
      <<SelVn, SelNoSuch>>,
      <<SelVn, SelNoLimit>>,
      <<SelCount, Command("SHOW")>>,
      <<SelHidden, Drop(Table("ovst", "")), SelHidden>>,
      <<Union(SelVn, SelVn)>>,
      <<Union(SelVn, SelHn)>>,
      <<Union(SelHn, SelVn)>>,
      <<Union(SelNoLimit, SelNoLimit)>>,
      <<Union(SelFilter, SelCount)>>,
      <<Union(SelCount, SelFilter)>>,
      <<SelCteFilter>>,
      <<SelNestedFilter>>,
      <<SelCteCount>>,
      <<Subquery(SelVn, "")>>,
      <<Subquery(SelHn, "")>> }

SqlTexts == { <<s>> : s \in Selects } \cup OtherTexts


(***************************************************************************)
(* State                                                                   *)
(***************************************************************************)
VARIABLES
    g_sql,          \* guard call: the SQL text (its statements)
    g_catalog,      \* guard call: the catalog argument
    g_strict,       \* guard call: strict_catalog_check
    g_result,       \* guard call: the ValidationResult, Pending before the call
    catalog_file,   \* Settings.catalog_path exists
    o_catalog,      \* ChatOrchestrator._catalog
    sessions,       \* SessionManager._sessions: session id -> messages
    served,         \* requests answered so far
    pc,             \* position of the request in flight
    req,            \* the request in flight: caller role, session id
    history,        \* the conversation history of the request in flight
    gen_response,   \* the plan in use (SQLGenerationResponse)
    sql,            \* the local variable sql of _process_question
    validations,    \* the validate_sql calls of this request, in order
    gen_calls,      \* generator.generate calls of this request
    exec_log,       \* the SQL texts passed to db.execute_query in this request
    result,         \* the QueryResult of this request
    response,       \* the ChatResponse handle_message returned
    returned,       \* the ChatResponse POST /api/chat returned
    q_cursor,       \* execute_query call: the cursor after cur.execute
    q_max_rows,     \* execute_query call: the max_rows argument
    q_fetched,      \* execute_query call: the rows read from the cursor
    q_result,       \* execute_query call: the QueryResult, None before the call
    q_check_names,  \* run_sanity_checks call: the check_names argument
    q_checks,       \* run_sanity_checks call: the results, None before the call
    j_schema,       \* SchemaCatalog calls: schema.join_edges
    j_args,         \* SchemaCatalog calls: the arguments
    j_paths,        \* find_join_path call: the paths returned, None before the call
    j_recommended,  \* get_recommended_joins call: the result, None before the call
    limiter,        \* the LoginRateLimiter: its settings and _attempts
    clock,          \* time.monotonic()
    l_result,       \* the last LoginRateLimiter call and what it returned
    recorded,       \* per IP: the times of its failures since its last success
    fresh,          \* per IP: its failures since its last success or lockout expiry
    w_messages,     \* history window: session.messages
    w_question,     \* history window: the question of the request
    w_history,      \* history window: the local variable history of _process_question
    w_inputs,       \* history window: the messages built for each LLM call, in order
    inflight        \* overlapping requests: where each handle_message call stands

guard_vars == <<g_sql, g_catalog, g_strict, g_result>>

db_vars == <<q_cursor, q_max_rows, q_fetched, q_result, q_check_names, q_checks>>

chat_vars == <<catalog_file, o_catalog, sessions, served, pc, req, history, gen_response,
               sql, validations, gen_calls, exec_log, result, response,
               returned>>

join_vars == <<j_schema, j_args, j_paths, j_recommended>>

limiter_vars == <<limiter, clock, l_result, recorded, fresh>>

window_vars == <<w_messages, w_question, w_history, w_inputs>>

lib_vars == <<join_vars, limiter_vars, window_vars, inflight>>

vars == <<guard_vars, chat_vars, db_vars, lib_vars>>

\* Optional[T]: None is the empty set, a value x is {x}
None == {}

Some(x) == {x}

The(opt) == CHOOSE x \in opt : TRUE

(***************************************************************************)
(* The guard as a function: one call per behaviour, inputs drawn in Init   *)
(***************************************************************************)
GuardCatalogs ==
    { <<NoCatalog, TRUE>>,
      <<LoadedCatalog("Catalog"), TRUE>>,
      <<LoadedCatalog("SchemaCatalog"), TRUE>>,
      <<LoadedCatalog("SchemaCatalog"), FALSE>> }

\* the orchestrator before its first request
ChatInit ==
    /\ catalog_file \in BOOLEAN
    /\ o_catalog = NoCatalog
    /\ sessions = <<>>
    /\ served = 0
    /\ pc = "idle"
    /\ req = [role |-> "standard_user", session_id |-> 0]
    /\ history = <<>>
    /\ gen_response = None
    /\ sql = None
    /\ validations = <<>>
    /\ gen_calls = 0
    /\ exec_log = <<>>
    /\ result = None
    /\ response = None
    /\ returned = None

\* no execute_query call is under observation
DbIdle ==
    /\ q_cursor = [description |-> <<>>, produced |-> <<>>]
    /\ q_max_rows = None
    /\ q_fetched = 0
    /\ q_result = None
    /\ q_check_names = None
    /\ q_checks = None

\* no SchemaCatalog call is under observation
JoinIdle ==
    /\ j_schema = <<>>
    /\ j_args = [from_table |-> "", to_table |-> "", max_hops |-> 0, tables |-> <<>>]
    /\ j_paths = None
    /\ j_recommended = None

\* the client addresses of the model
IPs == {"1.1.1.1", "2.2.2.2"}

\* LoginRateLimiter.__init__
LoginRateLimiter(max_failures, lockout_seconds, window_seconds) ==
    [max_failures |-> max_failures, lockout_seconds |-> lockout_seconds,
     window_seconds |-> window_seconds, attempts |-> [ip \in IPs |-> {}]]

NoCall == [op |-> "", ip |-> "", blocked |-> FALSE, count |-> 0]

\* the global limiter has its default settings and no call has been made
LimiterIdle ==
    /\ limiter = LoginRateLimiter(5, 300, 600)
    /\ clock = 0
    /\ l_result = NoCall
    /\ recorded = [ip \in IPs |-> <<>>]
    /\ fresh = [ip \in IPs |-> 0]

\* no LLM input is under observation
WindowIdle ==
    /\ w_messages = <<>>
    /\ w_question = ""
    /\ w_history = <<>>
    /\ w_inputs = <<>>

\* no overlapping handle_message calls are under observation
OverlapIdle == inflight = <<>>

LibIdle == JoinIdle /\ LimiterIdle /\ WindowIdle /\ OverlapIdle

GuardInit ==
    /\ g_sql \in SqlTexts
    /\ \E c \in GuardCatalogs : g_catalog = c[1] /\ g_strict = c[2]
    /\ g_result = None
    /\ ChatInit
    /\ catalog_file = FALSE
    /\ DbIdle
    /\ LibIdle

\* result = validate_sql(sql, catalog, max_rows, strict_catalog_check)
Validate ==
    /\ g_result = None
    /\ g_result' = Some(validate_sql(g_sql, g_catalog, SQL_MAX_ROWS, g_strict, TRUE))
    /\ UNCHANGED <<g_sql, g_catalog, g_strict, chat_vars, db_vars, lib_vars>>

GuardNext == Validate

GuardSpec == GuardInit /\ [][GuardNext]_vars

(***************************************************************************)
(* Query execution (app/db.py)                                             *)
(***************************************************************************)
QueryResult(columns, rows) ==
    [columns |-> columns, rows |-> rows, row_count |-> Len(rows), truncated |-> FALSE]

\* the cursor after cur.execute(sql): the column descriptions and the rows
\* the query produces, each a sequence of cells; a cell is None (NULL) or
\* Some(number)
Cursor(description, produced) == [description |-> description, produced |-> produced]

\* d[k] = v on a dict kept as the sequence of its items in insertion order
DictSet(items, k, v) ==
    IF \E i \in DOMAIN items : items[i][1] = k
    THEN [i \in DOMAIN items |-> IF items[i][1] = k THEN <<k, v>> ELSE items[i]]
    ELSE Append(items, <<k, v>>)

RECURSIVE DictZip(_, _, _)
DictZip(names, values, items) ==
    IF names = <<>> \/ values = <<>> THEN items
    ELSE DictZip(Tail(names), Tail(values), DictSet(items, Head(names), Head(values)))

\* psycopg.rows.dict_row: dict(zip(names, values))
dict_row(names, values) == DictZip(names, values, <<>>)

\* list(row.values())
dict_values(items) == [i \in DOMAIN items |-> items[i][2]]

\* Cursor.fetchmany(size) with the dict_row row factory
fetchmany(cursor, size) ==
    LET n == IF size < Len(cursor.produced) THEN size ELSE Len(cursor.produced)
    IN [i \in 1..n |-> dict_row(cursor.description, cursor.produced[i])]

\* max_rows or settings.sql_max_rows
row_cap(max_rows) ==
    IF max_rows = None \/ The(max_rows) = 0 THEN SQL_MAX_ROWS ELSE The(max_rows)

\* a variant that keeps every row it fetched
execute_query_KeepsFetched(cursor, max_rows) ==
    LET rows_raw == fetchmany(cursor, row_cap(max_rows) + 1)
        truncated == Len(rows_raw) > row_cap(max_rows)
        rows == [i \in DOMAIN rows_raw |-> dict_values(rows_raw[i])]
    IN [QueryResult(cursor.description, rows) EXCEPT !.truncated = truncated]

\* DatabaseManager.execute_query, from fetchmany to the QueryResult
execute_query(cursor, max_rows) ==
    LET rows_raw == fetchmany(cursor, row_cap(max_rows) + 1)
        truncated == Len(rows_raw) > row_cap(max_rows)
        kept == IF truncated THEN SubSeq(rows_raw, 1, row_cap(max_rows)) ELSE rows_raw
        rows == [i \in DOMAIN kept |-> dict_values(kept[i])]
    IN [QueryResult(cursor.description, rows) EXCEPT !.truncated = truncated]

\* the results the database returns to the orchestrator in the model
QueryResults ==
    { execute_query(Cursor(<<"count">>, <<>>), Some(SQL_MAX_ROWS)),
      execute_query(Cursor(<<"count", "percent">>, <<<<Some(0), Some(50)>>>>),
                    Some(SQL_MAX_ROWS)) }

(***************************************************************************)
(* Sanity checks (app/validators.py)                                       *)
(***************************************************************************)
SanityCheckResult(check_name, passed) == [check_name |-> check_name, passed |-> passed]

\* the index of the first column whose lowercase name is among names, 0 if
\* there is none
FirstIndex(columns, names) ==
    IF \E i \in 1..Len(columns) : lower(columns[i]) \in names
    THEN CHOOSE i \in 1..Len(columns) :
            /\ lower(columns[i]) \in names
            /\ \A j \in 1..(i - 1) : lower(columns[j]) \notin names
    ELSE 0

\* the lowercase column names of the model that contain "percent"
PERCENT_NAMES == {"percent", "percent_female"}

\* a row shorter than the column index raises IndexError, which the check
\* catches and reports as a failure
check_denominator(res) ==
    LET col_idx == FirstIndex(res.columns, {"count"})
    IN SanityCheckResult("denominator_check",
           col_idx = 0 \/ \A i \in 1..Len(res.rows) :
                             /\ col_idx <= Len(res.rows[i])
                             /\ LET value == res.rows[i][col_idx]
                                IN value = None \/ The(value) > 0)

check_percent_range(res) ==
    LET col_idx == FirstIndex(res.columns, PERCENT_NAMES)
    IN SanityCheckResult("percent_range_check",
           col_idx = 0 \/ \A i \in 1..Len(res.rows) :
                             /\ col_idx <= Len(res.rows[i])
                             /\ LET value == res.rows[i][col_idx]
                                IN value = None
                                   \/ (The(value) >= 0 /\ The(value) <= 100))

check_non_empty(res) == SanityCheckResult("non_empty_check", res.row_count # 0)

\* check_names: None, or Some(the words of str(check_names) the code looks
\* for)
run_sanity_checks(res, check_names) ==
    <<check_non_empty(res)>>
    \o (IF check_names = None \/ "denominator" \in The(check_names)
        THEN <<check_denominator(res)>> ELSE <<>>)
    \o (IF check_names = None \/ "percent" \in The(check_names)
        THEN <<check_percent_range(res)>> ELSE <<>>)

(***************************************************************************)
(* execute_query and run_sanity_checks as functions: one call of each per  *)
(* behaviour, inputs drawn in Init                                         *)
(***************************************************************************)
\* the most rows a query of the model produces
MaxProduced == 3

Cells1 == { <<None>>, <<Some(0)>>, <<Some(5)>>, <<Some(150)>> }

Cells2 ==
    { <<None, None>>, <<Some(5), Some(5)>>, <<Some(0), Some(5)>>,
      <<Some(5), Some(150)>> }

Columns1 == { <<"vn">>, <<"count">>, <<"COUNT">>, <<"percent">> }

Columns2 ==
    { <<"count", "percent">>, <<"percent", "percent_female">>, <<"count", "count">> }

RowsUpTo(cells, n) == UNION { [1..k -> cells] : k \in 0..n }

Cursors ==
    { Cursor(c, r) : c \in Columns1, r \in RowsUpTo(Cells1, MaxProduced) }
    \cup { Cursor(c, r) : c \in Columns2, r \in RowsUpTo(Cells2, MaxProduced) }

MaxRowsArgs == { None, Some(0), Some(1), Some(2) }

CheckNamesArgs == { None } \cup { Some(w) : w \in SUBSET {"denominator", "percent"} }

DbInit ==
    /\ q_cursor \in Cursors
    /\ q_max_rows \in MaxRowsArgs
    /\ q_check_names \in CheckNamesArgs
    /\ q_fetched = 0
    /\ q_result = None
    /\ q_checks = None
    /\ LibIdle
    /\ ChatInit
    /\ catalog_file = FALSE
    /\ g_sql = <<>>
    /\ g_catalog = NoCatalog
    /\ g_strict = TRUE
    /\ g_result = None

\* result = execute_query(sql, max_rows=max_rows)
ExecuteQuery ==
    /\ q_result = None
    /\ q_result' = Some(execute_query(q_cursor, q_max_rows))
    /\ q_fetched' = Len(fetchmany(q_cursor, row_cap(q_max_rows) + 1))
    /\ UNCHANGED <<q_cursor, q_max_rows, q_check_names, q_checks, guard_vars, chat_vars,
                   lib_vars>>

\* checks = run_sanity_checks(result, check_names)
RunSanityChecks ==
    /\ q_result # None
    /\ q_checks = None
    /\ q_checks' = Some(run_sanity_checks(The(q_result), q_check_names))
    /\ UNCHANGED <<q_cursor, q_max_rows, q_fetched, q_result, q_check_names,
                   guard_vars, chat_vars, lib_vars>>

DbNext == ExecuteQuery \/ RunSanityChecks

DbSpec == DbInit /\ [][DbNext]_vars

(***************************************************************************)
(* The chat orchestrator (app/chat.py) and POST /api/chat (app/main.py)    *)
(***************************************************************************)
ROLES == {"super_user", "standard_user"}

SelJoin ==
    Select(<<Column("o", "vn")>>, Table("ovst", "o"),
           JoinPt \o <<Kid("limit", Limit("10"))>>)

\* the SQL texts the LLM writes in the model
LLMTexts ==
    { <<>>, <<SelVn>>, <<SelNoSuch>>, <<Drop(Table("ovst", ""))>>,
      <<Command("SHOW")>>, <<SelJoin>> }

\* SQLGenerationResponse
SQLGenerationResponse(needs_clarification, sql_text, call) ==
    [needs_clarification |-> needs_clarification,
     sql |-> sql_text,
     clarification_question |-> IF needs_clarification THEN Some("which") ELSE None,
     assumptions |-> <<call>>,
     concepts_used |-> <<call>>,
     validation_checks |-> IF call = "retry" THEN {"denominator", "percent"} ELSE {},
     confidence |-> "high"]

\* what the LLM writes: a text that is no JSON plan, or the JSON of a plan:
\* clarification requests, with and without SQL, a plan without SQL, and a
\* plan for each text
LLMOutputs(call) ==
    { [json |-> FALSE, data |-> SQLGenerationResponse(FALSE, None, call)] }
    \cup { [json |-> TRUE, data |-> p] :
             p \in { SQLGenerationResponse(TRUE, None, call),
                     SQLGenerationResponse(TRUE, Some(<<SelVn>>), call),
                     SQLGenerationResponse(FALSE, None, call) }
                   \cup { SQLGenerationResponse(FALSE, Some(t), call) : t \in LLMTexts } }

\* SQLGenerator._parse_response
parse_response(output) ==
    IF output.json THEN output.data
    ELSE [needs_clarification |-> TRUE,
          sql |-> None,
          clarification_question |-> Some("rephrase"),
          assumptions |-> <<>>,
          concepts_used |-> <<>>,
          validation_checks |-> {},
          confidence |-> "low"]

\* what generator.generate returns
Plans(call) == { parse_response(output) : output \in LLMOutputs(call) }

Answer(kind) == [kind |-> kind, warnings |-> <<>>, truncated |-> FALSE]

ChatResponse(session_id, answer) ==
    [session_id |-> session_id, answer |-> answer, sql |-> None,
     assumptions |-> <<>>, concepts_used |-> <<>>, confidence |-> "medium",
     sanity_checks |-> <<>>, query_result |-> None, error |-> None,
     needs_clarification |-> FALSE, clarification_question |-> None]

\* Message; the content is kept as the kind of text it is
Message(role, content, sql_text) ==
    [role |-> role,
     content |-> IF role = "user" THEN "question" ELSE "answer",
     sql |-> sql_text]

\* SessionManager.get_or_create_session: the id of the session used
get_or_create_session(session_id) ==
    IF session_id \in 1..Len(sessions) THEN session_id ELSE Len(sessions) + 1

\* add_message keeping only the message added
add_message_KeepsLast(all, sid, msg) ==
    LET base == IF sid \in 1..Len(all) THEN all ELSE Append(all, <<>>)
    IN [base EXCEPT ![sid] = <<msg>>]

\* Session.add_message on session sid, created if it is new
add_message(all, sid, msg) ==
    LET base == IF sid \in 1..Len(all) THEN all ELSE Append(all, <<>>)
    IN [base EXCEPT ![sid] = Append(@, msg)]

\* SessionManager.get_conversation_history: messages[-max_messages:]
get_conversation_history(messages, max_messages) ==
    LET n == Len(messages)
        from == IF n > max_messages THEN n - max_messages + 1 ELSE 1
    IN [i \in 1..(n - from + 1) |->
            [role |-> messages[from + i - 1].role,
             content |-> messages[from + i - 1].content]]

\* ChatOrchestrator.catalog: loaded on first use once the file exists
catalog_property(loaded, file_exists) ==
    IF loaded.kind = "None" /\ file_exists THEN LoadedCatalog("Catalog") ELSE loaded

\* the record kept of one validate_sql call of the request
Validation(text, cat, v) ==
    [sql |-> text, catalog |-> cat.kind, valid |-> v.valid,
     error_type |-> v.error_type, raised |-> v.raised]

\* handle_message, except Exception
ExceptionResponse(session_id) ==
    [ChatResponse(session_id, Answer("exception")) EXCEPT !.error = Some("exception")]

\* _process_question, needs_clarification
ClarificationResponse(session_id, plan) ==
    [ChatResponse(session_id, Answer("clarification")) EXCEPT
        !.needs_clarification = TRUE,
        !.clarification_question = plan.clarification_question,
        !.assumptions = plan.assumptions,
        !.confidence = plan.confidence]

\* _process_question, no SQL generated
NoSqlResponse(session_id) ==
    [ChatResponse(session_id, Answer("no_sql")) EXCEPT
        !.error = Some("No SQL generated"), !.confidence = "low"]

\* _process_question, the guard refused the plan and the retry
UnsafeResponse(session_id, text, validation, plan) ==
    [ChatResponse(session_id, Answer("unsafe")) EXCEPT
        !.sql = Some(text),
        !.error = Some(validation.error_type),
        !.assumptions = plan.assumptions,
        !.confidence = "low"]

\* a variant that reports the failure without the SQL
ExecutionErrorResponse_NoSql(session_id, text, plan) ==
    [ChatResponse(session_id, Answer("execution_error")) EXCEPT
        !.error = Some("database"),
        !.assumptions = plan.assumptions,
        !.concepts_used = plan.concepts_used,
        !.confidence = "low"]

\* _process_question, the database raised
ExecutionErrorResponse(session_id, text, plan) ==
    [ChatResponse(session_id, Answer("execution_error")) EXCEPT
        !.sql = Some(text),
        !.error = Some("database"),
        !.assumptions = plan.assumptions,
        !.concepts_used = plan.concepts_used,
        !.confidence = "low"]

\* _format_answer: the LLM's text, the failed checks and the truncation note
format_answer(res, failed_checks) ==
    [kind |-> "answer",
     warnings |-> failed_checks,
     truncated |-> res.truncated]

\* _process_question, the final response
ResultResponse(session_id, text, plan, res, sanity_results, answer) ==
    [ChatResponse(session_id, answer) EXCEPT
        !.sql = Some(text),
        !.assumptions = plan.assumptions,
        !.concepts_used = plan.concepts_used,
        !.confidence = plan.confidence,
        !.sanity_checks = sanity_results,
        !.query_result = Some(res)]

\* a variant that leaves the sanity checks in the response
RoleFilter_KeepsChecks(resp, role) ==
    IF role # "super_user"
    THEN [resp EXCEPT !.sql = None, !.query_result = None]
    ELSE resp

\* POST /api/chat: the fields a caller of the role is sent
RoleFilter(resp, role) ==
    IF role # "super_user"
    THEN [resp EXCEPT !.sql = None, !.query_result = None, !.sanity_checks = <<>>]
    ELSE resp

\* a variant that answers a forbidden keyword or statement without a retry
NextAfterValidation_ForbiddenEnds(validation) ==
    IF validation.valid THEN "execute"
    ELSE IF validation.error_type \in {"ForbiddenKeywordError", "ForbiddenStatementError"}
    THEN "respond"
    ELSE "retry"

\* _process_question, "if not validation.valid": retry, else execute
NextAfterValidation(validation) ==
    IF validation.valid THEN "execute" ELSE "retry"

\* a variant that executes the retry whatever its validation said
NextAfterRetry_AlwaysExecute(retry_validation) == "execute"

\* a variant that asks the LLM again after a refused retry
NextAfterRetry_RetryAgain(retry_validation) ==
    IF retry_validation.valid THEN "execute" ELSE "retry"

\* _process_question, "if retry_validation.valid": execute, else give up
NextAfterRetry(retry_validation) ==
    IF retry_validation.valid THEN "execute" ELSE "respond"

\* handle_message up to the first LLM call: the session, the user message,
\* the history handed to the generator
HandleMessage(role, session_id) ==
    /\ pc = "idle"
    /\ served < MaxRequests
    /\ LET sid == get_or_create_session(session_id)
           all == add_message(sessions, sid, Message("user", Answer("question"), None))
       IN /\ sessions' = all
          /\ req' = [role |-> role, session_id |-> sid]
          /\ history' = get_conversation_history(all[sid], HISTORY_WINDOW)
    /\ pc' = "generate"
    /\ gen_response' = None
    /\ sql' = None
    /\ validations' = <<>>
    /\ gen_calls' = 0
    /\ exec_log' = <<>>
    /\ result' = None
    /\ response' = None
    /\ returned' = None
    /\ UNCHANGED <<catalog_file, o_catalog, served, guard_vars, db_vars, lib_vars>>

\* _process_question from generator.generate to the first validation
Generate ==
    /\ pc = "generate"
    /\ gen_calls' = gen_calls + 1
    /\ \/ \* generator.generate raises
          /\ response' = Some(ExceptionResponse(req.session_id))
          /\ pc' = "respond"
          /\ UNCHANGED <<o_catalog, gen_response, sql, validations>>
       \/ \E plan \in Plans("first") :
            /\ gen_response' = Some(plan)
            /\ IF plan.needs_clarification
               THEN /\ response' = Some(ClarificationResponse(req.session_id, plan))
                    /\ pc' = "respond"
                    /\ UNCHANGED <<o_catalog, sql, validations>>
               ELSE IF plan.sql = None \/ The(plan.sql) = <<>>
               THEN /\ sql' = plan.sql
                    /\ response' = Some(NoSqlResponse(req.session_id))
                    /\ pc' = "respond"
                    /\ UNCHANGED <<o_catalog, validations>>
               ELSE \E text \in plan.sql :
                    \E cat \in {catalog_property(o_catalog, catalog_file)} :
                    \E validation \in {validate_sql(text, cat, SQL_MAX_ROWS, TRUE, TRUE)} :
                    \E next \in {IF validation.raised THEN "respond"
                                 ELSE NextAfterValidation(validation)} :
                       /\ sql' = plan.sql
                       /\ o_catalog' = cat
                       /\ validations' = Append(validations, Validation(text, cat, validation))
                       /\ pc' = next
                       /\ response' =
                            IF validation.raised
                            THEN Some(ExceptionResponse(req.session_id))
                            ELSE IF next = "respond"
                            THEN Some(UnsafeResponse(req.session_id, text, validation, plan))
                            ELSE response
    /\ UNCHANGED <<catalog_file, sessions, served, req, history, exec_log,
                   result, returned, guard_vars, db_vars, lib_vars>>

\* _process_question from _retry_with_error to the validation of the retry
Retry ==
    /\ pc = "retry"
    /\ gen_calls' = gen_calls + 1
    /\ \E plan \in gen_response :
       \E cat \in {catalog_property(o_catalog, catalog_file)} :
       \E unsafe \in {UnsafeResponse(req.session_id, The(sql), validations[1], plan)} :
          /\ o_catalog' = cat
          /\ \/ \* generator.generate raises: _retry_with_error returns None
                /\ response' = Some(unsafe)
                /\ pc' = "respond"
                /\ UNCHANGED <<gen_response, sql, validations>>
             \/ \E retry_response \in Plans("retry") :
                       \* a plan without SQL holds the empty string
                       \E text \in {IF retry_response.sql = None THEN <<>>
                                    ELSE The(retry_response.sql)} :
                       \E retry_validation \in
                              {validate_sql(text, cat, SQL_MAX_ROWS, TRUE, TRUE)} :
                       \E next \in {IF retry_validation.raised THEN "respond"
                                    ELSE NextAfterRetry(retry_validation)} :
                          /\ validations' =
                                Append(validations, Validation(text, cat, retry_validation))
                          /\ pc' = next
                          /\ sql' = IF next = "execute" THEN retry_response.sql ELSE sql
                          /\ gen_response' =
                                IF next = "execute" THEN Some(retry_response)
                                ELSE gen_response
                          /\ response' =
                                IF retry_validation.raised
                                THEN Some(ExceptionResponse(req.session_id))
                                ELSE IF next = "respond" THEN Some(unsafe)
                                ELSE response
    /\ UNCHANGED <<catalog_file, sessions, served, req, history, exec_log,
                   result, returned, guard_vars, db_vars, lib_vars>>

\* _process_question, db.execute_query
Execute ==
    /\ pc = "execute"
    /\ exec_log' = Append(exec_log, The(sql))
    /\ \/ \E res \in QueryResults :
            /\ result' = Some(res)
            /\ pc' = "format"
            /\ UNCHANGED response
       \/ \* the database raises
          /\ response' =
                Some(ExecutionErrorResponse(req.session_id, The(sql), The(gen_response)))
          /\ pc' = "respond"
          /\ UNCHANGED result
    /\ UNCHANGED <<catalog_file, o_catalog, sessions, served, req, history,
                   gen_response, sql, validations, gen_calls, returned, guard_vars,
                   db_vars, lib_vars>>

\* _process_question from run_sanity_checks to the final ChatResponse
FormatAnswer ==
    /\ pc = "format"
    /\ LET plan == The(gen_response)
           res == The(result)
           sanity_results == run_sanity_checks(res, Some(plan.validation_checks))
           failed_checks == SelectSeq(sanity_results, LAMBDA c : ~c.passed)
       IN \/ response' = Some(ResultResponse(req.session_id, The(sql), plan, res,
                                             sanity_results,
                                             format_answer(res, failed_checks)))
          \/ \* llm.format_answer raises
             response' = Some(ExceptionResponse(req.session_id))
    /\ pc' = "respond"
    /\ UNCHANGED <<catalog_file, o_catalog, sessions, served, req, history,
                   gen_response, sql, validations, gen_calls, exec_log, result,
                   returned, guard_vars, db_vars, lib_vars>>

\* handle_message stores the assistant message and returns; POST /api/chat
\* filters the response by the caller's role
Respond ==
    /\ pc = "respond"
    /\ LET resp == The(response)
       IN /\ sessions' = add_message(sessions, req.session_id,
                                     Message("assistant", resp.answer, resp.sql))
          /\ returned' = Some(RoleFilter(resp, req.role))
    /\ served' = served + 1
    /\ pc' = "idle"
    /\ UNCHANGED <<catalog_file, o_catalog, req, history, gen_response, sql,
                   validations, gen_calls, exec_log, result, response, guard_vars,
                   db_vars, lib_vars>>

\* save_catalog: the catalog file appears
SaveCatalog ==
    /\ ~catalog_file
    /\ catalog_file' = TRUE
    /\ UNCHANGED <<o_catalog, sessions, served, pc, req, history, gen_response, sql,
                   validations, gen_calls, exec_log, result, response, returned,
                   guard_vars, db_vars, lib_vars>>

Init ==
    /\ ChatInit
    /\ g_sql = <<>>
    /\ g_catalog = NoCatalog
    /\ g_strict = TRUE
    /\ g_result = None
    /\ DbIdle
    /\ LibIdle

Next ==
    \/ \E role \in ROLES, session_id \in 0..Len(sessions) : HandleMessage(role, session_id)
    \/ Generate
    \/ Retry
    \/ Execute
    \/ FormatAnswer
    \/ Respond
    \/ SaveCatalog

Spec == Init /\ [][Next]_vars

(***************************************************************************)
(* What a SQL text is and does, read off the text itself                   *)
(***************************************************************************)
g_called == g_result # None

g_accepted == g_called /\ The(g_result).valid

\* the SELECT blocks whose projections are the rows a statement returns
RECURSIVE ResultSelects(_)
ResultSelects(stmt) ==
    IF stmt.type = "Select" THEN {stmt}
    ELSE IF stmt.type = "Union"
    THEN ResultSelects(Arg(stmt, "this")) \cup ResultSelects(Arg(stmt, "expression"))
    ELSE IF stmt.type = "Subquery" THEN ResultSelects(Arg(stmt, "this"))
    ELSE {}

\* the column references of an expression that are not inside an aggregate call
RECURSIVE BareColumns(_)
BareColumns(e) ==
    IF e.type \in AGG_TYPES THEN {}
    ELSE IF e.type = "Column" THEN {e}
    ELSE UNION { BareColumns(k) : k \in Range(iter_expressions(e)) }

IsPhiName(name) == lower(name) \in PHI_COLUMNS

\* the PHI-named columns a statement projects outside aggregates
ProjectedPhi(stmt) ==
    UNION { UNION { { lower(c.name) : c \in { c \in BareColumns(e) : IsPhiName(c.name) } } :
                    e \in Range(Args(s, "expressions")) } :
            s \in ResultSelects(stmt) }

\* the derived tables and CTEs a SELECT block reads from, as <<name, block>>
DerivedSources(s) ==
    LET src == Arg(Arg(s, "from"), "this")
        ctes == IF HasArg(s, "with") THEN Args(Arg(s, "with"), "expressions") ELSE <<>>
    IN IF src.type = "Subquery"
       THEN { <<src.alias, Arg(src, "this")>> }
       ELSE { <<IF src.alias # "" THEN src.alias ELSE src.name, Arg(c, "this")>> :
                c \in { c \in Range(ctes) : lower(c.alias) = lower(src.name) } }

\* the statement returns a column that a derived table or CTE defines as an
\* alias of a PHI-named column
IndirectPhi(stmt) ==
    \E s \in ResultSelects(stmt) : \E d \in DerivedSources(s) :
    \E e \in Range(Args(s, "expressions")) : \E c \in BareColumns(e) :
        /\ c.table = "" \/ lower(c.table) = lower(d[1])
        /\ \E ie \in Range(Args(d[2], "expressions")) :
              /\ ie.type = "Alias"
              /\ lower(ie.alias) = lower(c.name)
              /\ \E ic \in BareColumns(ie) : IsPhiName(ic.name)

\* the words of a text that lie outside string literals and quoted identifiers,
\* read left to right as a SQL lexer reads them
RECURSIVE CodeWords(_, _)
CodeWords(toks, mode) ==
    IF toks = <<>> THEN <<>>
    ELSE LET t == Head(toks)
         IN IF mode = "code"
            THEN IF t = "'" THEN CodeWords(Tail(toks), "literal")
                 ELSE IF t = "\"" THEN CodeWords(Tail(toks), "identifier")
                 ELSE <<upper(t)>> \o CodeWords(Tail(toks), "code")
            ELSE IF mode = "literal"
            THEN CodeWords(Tail(toks), IF t = "'" THEN "code" ELSE "literal")
            ELSE CodeWords(Tail(toks), IF t = "\"" THEN "code" ELSE "identifier")

HasForbiddenWord(text) ==
    LET words == CodeWords(SqlText(text), "code")
    IN \E i \in 1..Len(words) :
          \/ words[i] \in FORBIDDEN_KEYWORDS
          \/ i < Len(words) /\ words[i] = "SET" /\ words[i + 1] = "ROLE"

IsSelectStatement(stmt) == ResultSelects(stmt) # {}

\* the LIMIT that bounds the rows a statement returns, NoInt if there is none
RECURSIVE OuterLimit(_)
OuterLimit(stmt) ==
    IF stmt.type \in {"Select", "Union", "Subquery"} /\ HasArg(stmt, "limit")
    THEN ParseInt(Arg(Arg(stmt, "limit"), "expression").name)
    ELSE IF stmt.type = "Subquery" THEN OuterLimit(Arg(stmt, "this"))
    ELSE IF stmt.type = "Union"
    THEN LET l == OuterLimit(Arg(stmt, "this"))
             r == OuterLimit(Arg(stmt, "expression"))
         IN IF l = NoInt \/ r = NoInt THEN NoInt ELSE l + r
    ELSE NoInt

\* the column references of a SELECT block, those of nested blocks left out
RECURSIVE OwnColumns(_)
OwnColumns(n) ==
    IF n.type = "Column" THEN {n}
    ELSE IF n.type = "Select" THEN {}
    ELSE UNION { OwnColumns(k) : k \in Range(iter_expressions(n)) }

ScopeColumns(s) == UNION { OwnColumns(k) : k \in Range(iter_expressions(s)) }

\* the FROM and JOIN sources of a SELECT block
ScopeSources(s) ==
    { Arg(f, "this") : f \in Range(Args(s, "from")) \cup Range(Args(s, "joins")) }

\* every qualified column reference, and every unqualified one in a scope of
\* one table, names a column of its table
ColumnsExist(stmt, catalog) ==
    \A s \in Range(find_all(stmt, {"Select"})) : \A c \in ScopeColumns(s) :
        LET named == { t \in Range(find_all(stmt, {"Table"})) :
                          lower(c.table) \in {lower(t.name), lower(t.alias)} }
            single == ScopeSources(s)
        IN /\ c.table # "" =>
                \A t \in named : table_exists(catalog, t.name) =>
                                    column_exists(catalog, t.name, c.name)
           /\ (c.table = "" /\ Cardinality(single) = 1) =>
                \A t \in single :
                    (t.type = "Table" /\ table_exists(catalog, t.name)) =>
                        column_exists(catalog, t.name, c.name)

\* the names that are aliases of tables and not names of tables
AliasNames(stmt) ==
    LET tables == Range(find_all(stmt, {"Table"}))
    IN { upper(t.alias) : t \in { t \in tables : t.alias # "" } }
       \ { upper(t.name) : t \in tables }

(***************************************************************************)
(* The guard's guarantees                                                  *)
(***************************************************************************)
\* C2: an accepted SQL text projects no PHI-named column outside an
\* aggregate, in any SELECT whose rows it returns.
C2_NoProjectedPhi ==
    g_accepted => \A i \in 1..Len(g_sql) : ProjectedPhi(g_sql[i]) = {}

\* C3: a query that returns a derived-table or CTE column defined as an
\* alias of a PHI-named column is refused.
C3_NoIndirectPhi ==
    (g_called /\ g_sql # <<>> /\ IndirectPhi(Head(g_sql))) => ~The(g_result).valid

\* C4: an accepted SQL text is exactly one statement, that statement is a
\* SELECT, and no forbidden keyword stands outside its string literals.
C4_SingleSelect ==
    g_accepted =>
        /\ Len(g_sql) = 1
        /\ IsSelectStatement(Head(g_sql))
        /\ ~HasForbiddenWord(g_sql)

\* C5: an accepted query without aggregate, GROUP BY or DISTINCT has a LIMIT
\* of at most max_rows that bounds the rows of the outermost statement.
C5_OuterLimit ==
    (g_accepted /\ ~has_aggregation(Head(g_sql))) =>
        /\ OuterLimit(Head(g_sql)) # NoInt
        /\ OuterLimit(Head(g_sql)) <= SQL_MAX_ROWS

\* C6: in strict mode with a catalog an accepted query names only tables of
\* the catalog and only columns of those tables, and the column maps of the
\* result are keyed by table names, never by aliases.
C6_KnownReferences ==
    (g_accepted /\ g_strict /\ g_catalog.kind # "None") =>
        /\ \A t \in extract_tables(Head(g_sql)) : table_exists(g_catalog, t)
        /\ ColumnsExist(Head(g_sql), g_catalog)
        /\ DOMAIN The(g_result).all_columns \cap AliasNames(Head(g_sql)) = {}

(***************************************************************************)
(* The orchestrator's guarantees                                           *)
(***************************************************************************)
FORBIDDEN_ERRORS == {"ForbiddenKeywordError", "ForbiddenStatementError"}

first_refused == Len(validations) >= 1 /\ ~validations[1].valid

first_forbidden == first_refused /\ validations[1].error_type \in FORBIDDEN_ERRORS

retry_refused == Len(validations) = 2 /\ ~validations[2].valid

\* C1: in every request the executor is called at most once and only with
\* the SQL text that the last validation of that request accepted; when the
\* first plan and the retry are both refused, the executor is not called and
\* the response carries an error.
C1_ExecuteOnlyValidated ==
    /\ Len(exec_log) <= 1
    /\ \A i \in 1..Len(exec_log) :
          /\ validations # <<>>
          /\ validations[Len(validations)].valid
          /\ validations[Len(validations)].sql = exec_log[i]
    /\ (first_refused /\ retry_refused) =>
          /\ exec_log = <<>>
          /\ response # None
          /\ The(response).error # None

\* the first plan was refused, the retry accepted and executed
C1_Witness ==
    /\ first_refused
    /\ Len(validations) = 2 /\ validations[2].valid
    /\ exec_log = <<validations[2].sql>>

\* C7: the orchestrator executes no SQL that names a table the schema
\* catalog does not have.
C7_NoUnknownTableExecuted ==
    \A i \in 1..Len(exec_log) :
        \A t \in extract_tables(parse_one(exec_log[i])) :
            table_exists(LoadedCatalog("Catalog"), t)

\* C8: the LLM is asked for SQL at most twice in a request, the second time
\* only after the first plan was refused; a refused retry ends the request;
\* and in every request a refused first plan is followed by its one retry.
C8_AtMostOneRetry ==
    /\ gen_calls <= 2
    /\ gen_calls = 2 => first_refused
    /\ retry_refused => pc \in {"respond", "idle"}
    /\ (first_refused /\ ~validations[1].raised /\ gen_calls = 1) => pc = "retry"

\* a request retries after an earlier request of the same session used up
\* its retry and was refused
C8_Witness ==
    /\ served = 1
    /\ gen_calls = 2
    /\ pc = "execute"
    /\ Len(sessions) = 1
    /\ sessions[1][2].sql = Some(<<Drop(Table("ovst", ""))>>)

OTHER_FIELDS ==
    {"session_id", "answer", "assumptions", "concepts_used", "confidence", "error",
     "needs_clarification", "clarification_question"}

\* C10: a caller who is not super_user is sent sql = None, query_result =
\* None and sanity_checks = [] and every other field as the orchestrator
\* produced it; a super_user is sent the response unchanged; filtering the
\* filtered response again changes nothing.
C10_RoleFilter ==
    returned # None =>
        LET sent == The(returned)
            made == The(response)
        IN /\ req.role # "super_user" =>
                /\ sent.sql = None
                /\ sent.query_result = None
                /\ sent.sanity_checks = <<>>
                /\ \A f \in OTHER_FIELDS : sent[f] = made[f]
           /\ req.role = "super_user" => sent = made
           /\ RoleFilter(sent, req.role) = sent

\* a standard user is answered for a request whose query ran
C10_Witness ==
    /\ returned # None
    /\ req.role = "standard_user"
    /\ The(response).sql # None
    /\ The(response).query_result # None
    /\ The(response).sanity_checks # <<>>

\* C11: the assistant message a request of a standard_user appends to the
\* session holds no SQL.
C11_NoSqlStoredForStandardUser ==
    (pc = "idle" /\ served > 0 /\ req.role = "standard_user") =>
        LET messages == sessions[req.session_id]
        IN messages[Len(messages)].sql = None


(***************************************************************************)
(* Query execution and sanity checks, claims                               *)
(***************************************************************************)
q_called == q_result # None

NoDuplicates(seq) == \A i, j \in DOMAIN seq : i # j => seq[i] # seq[j]

\* C12: with a row cap M >= 1 and a query that produces N rows, execute_query
\* returns min(N, M) rows, the i-th of them the i-th row produced, row_count
\* is min(N, M), truncated is set exactly when N > M, and at most M + 1 rows
\* are read from the cursor.
C12_RowCap ==
    (q_called /\ q_max_rows # None /\ The(q_max_rows) >= 1) =>
        LET N == Len(q_cursor.produced)
            M == The(q_max_rows)
            least == IF N < M THEN N ELSE M
            res == The(q_result)
        IN /\ Len(res.rows) = least
           /\ res.row_count = least
           /\ res.truncated = (N > M)
           /\ q_fetched <= M + 1
           /\ \A i \in 1..least :
                 /\ Range(res.rows[i]) \subseteq Range(q_cursor.produced[i])
                 /\ NoDuplicates(q_cursor.description) =>
                        res.rows[i] = q_cursor.produced[i]

\* a query that produces three rows, the first two different, is cut at two
C12_Witness ==
    /\ q_called
    /\ q_max_rows = Some(2)
    /\ Len(q_cursor.produced) = 3
    /\ q_cursor.produced[1] # q_cursor.produced[2]
    /\ The(q_result).truncated
    /\ The(q_result).rows = SubSeq(q_cursor.produced, 1, 2)


\* C13: every returned row is a list with one value per declared column, the
\* j-th value being the value the query produced for the j-th column.
C13_PositionalRows ==
    q_called =>
        LET res == The(q_result)
        IN \A i \in DOMAIN res.rows :
              /\ Len(res.rows[i]) = Len(res.columns)
              /\ \A j \in DOMAIN res.rows[i] :
                    res.rows[i][j] = q_cursor.produced[i][j]


(***************************************************************************)
(* The orchestrator after execution, claims                                *)
(***************************************************************************)
\* the step in which db.execute_query raises
ExecutorRaises == pc = "execute" /\ pc' = "respond"

\* the request in flight ended because the executor raised
ExecutionFailed ==
    /\ pc = "respond"
    /\ Len(exec_log) > 0
    /\ result = None

\* C14: when the executor raises, the response carries the error and the SQL
\* that was executed; the request then ends with no second execution and no
\* further call of the LLM, and the orchestrator is ready for the next
\* request.
C14_ExecutionError ==
    /\ [][ /\ ExecutorRaises =>
                /\ response' # None
                /\ The(response').error # None
                /\ The(response').sql = Some(exec_log'[Len(exec_log')])
                /\ Len(exec_log') = 1
           /\ ExecutionFailed =>
                /\ exec_log' = exec_log
                /\ gen_calls' = gen_calls
                /\ pc' # pc =>
                      /\ pc' = "idle"
                      /\ served' = served + 1
                      /\ returned' # None
                      /\ The(returned').error = The(response).error ]_vars
    /\ [](pc = "idle" /\ served < MaxRequests =>
            ENABLED (\E role \in ROLES, session_id \in 0..Len(sessions) :
                        HandleMessage(role, session_id)))

\* the executor raised in the second request of a session, and the caller
\* got the error
C14_Witness ==
    /\ pc = "idle"
    /\ served = 2
    /\ Len(exec_log) = 1
    /\ result = None
    /\ returned # None
    /\ The(returned).error = Some("database")


\* C15: SQL of a plan that asks for clarification is never validated or
\* executed, for the first plan and the retry plan alike: while such a plan
\* is the plan in use, the request has called neither the guard nor the
\* executor and is about to end.
C15_ClarificationEndsRequest ==
    (gen_response # None /\ The(gen_response).needs_clarification /\ pc # "idle") =>
        /\ validations = <<>>
        /\ exec_log = <<>>
        /\ pc = "respond"


(***************************************************************************)
(* The order of the guard's layers, claims                                 *)
(***************************************************************************)
\* the error types in the order of the layers
LAYERS ==
    << "ForbiddenKeywordError", "SQLParseError", "ForbiddenStatementError",
       "SelectStarError", "PHIExposureError", "UnknownTableError",
       "UnknownColumnError", "MissingLimitError" >>

\* the layers whose test refuses the text, each test taken on its own; the
\* tests on the tree are those of a text that parses
FailingLayers(text, catalog, strict_catalog_check, max_rows) ==
    LET parsed == parse_one(text)
        aliases == extract_table_aliases(parsed)
        resolved(columns) ==
            resolve_unknown_columns_to_tables(
                resolve_column_tables(columns, aliases), parsed)
        select_columns == extract_output_columns(parsed)
        every == resolved(extract_all_columns(parsed))
        refs == validate_sql_references(
                    catalog, extract_tables(parsed),
                    [t \in (DOMAIN every) \ {"_UNKNOWN_", "_STAR_"} |-> every[t]])
        checked == catalog.kind # "None" /\ strict_catalog_check
        limit_val == get_limit_value(parsed)
        fails(n) ==
            CASE n = 1 -> quick_keyword_check(text)
              [] n = 2 -> ParseError(text)
              [] ParseError(text) -> FALSE
              [] n = 3 -> ~(\/ parsed.type \in {"Select", "Union"}
                            \/ /\ HasArg(parsed, "this")
                               /\ Arg(parsed, "this").type = "Select")
              [] n = 4 -> check_select_star(select_columns)
              [] n = 5 -> check_phi_in_select(resolved(select_columns), catalog) # {}
              [] n = 6 -> checked /\ refs.invalid_tables # {}
              [] n = 7 -> checked /\ refs.invalid_columns # {}
              [] n = 8 -> /\ ~has_aggregation(parsed)
                          /\ (limit_val = NoInt \/ limit_val > max_rows)
    IN { n \in 1..Len(LAYERS) : fails(n) }

g_failing == FailingLayers(g_sql, g_catalog, g_strict, SQL_MAX_ROWS)

Least(S) == CHOOSE n \in S : \A m \in S : n <= m

BlockColumns(s) ==
    UNION { { lower(c.name) : c \in BareColumns(e) } : e \in Range(Args(s, "expressions")) }

\* the columns that reach the rows a statement returns: those its result
\* blocks project, and those projected by the derived tables and CTEs these
\* blocks read from
ExposedColumns(stmt) ==
    UNION { BlockColumns(s) \cup UNION { BlockColumns(d[2]) : d \in DerivedSources(s) } :
            s \in ResultSelects(stmt) }

\* the column names the catalog flags as PHI
CatalogPhi(catalog) ==
    IF catalog.kind = "None" THEN {}
    ELSE UNION { { c \in DOMAIN catalog.tables[t] : catalog.tables[t][c] } :
                 t \in DOMAIN catalog.tables }

\* the PHI columns of the statement occur only inside aggregates, join
\* conditions, WHERE clauses (the projections of their subqueries included)
\* and CTEs that only such subqueries read
PhiOnlyFilters(stmt, catalog) ==
    ExposedColumns(stmt) \cap (PHI_COLUMNS \cup CatalogPhi(catalog)) = {}

\* C17: a query whose PHI columns occur only inside aggregates, join
\* conditions, WHERE clauses and CTEs used for filtering is never refused
\* with PHIExposureError, be it a plain SELECT, a SELECT under WITH or a
\* UNION of SELECTs.
C17_FilterPhiAllowed ==
    (g_called /\ Len(g_sql) = 1 /\ PhiOnlyFilters(Head(g_sql), g_catalog)) =>
        The(g_result).error_type # "PHIExposureError"


(***************************************************************************)
(* Join checking, claims                                                   *)
(***************************************************************************)
\* C18: a text that no layer refuses is returned valid, whatever the join
\* check finds and whichever catalog object the guard is given.
C18_JoinsNeverReject ==
    (g_called /\ g_failing = {}) =>
        (The(g_result).valid /\ ~The(g_result).raised)


(***************************************************************************)
(* Sanity checks, claims                                                   *)
(***************************************************************************)
\* the columns of a result whose lowercase name is among names
ColumnsNamed(res, names) == { j \in DOMAIN res.columns : lower(res.columns[j]) \in names }

\* the non-null values the rows of a result hold in the columns given
ValuesIn(res, columns) ==
    { The(res.rows[i][j]) :
        <<i, j>> \in { p \in (DOMAIN res.rows) \X columns :
                         /\ p[2] \in DOMAIN res.rows[p[1]]
                         /\ res.rows[p[1]][p[2]] # None } }

\* C19: the response to an executed query reports the non-empty check, failed
\* exactly when the result has no rows, and, when the result has a column
\* named count, the denominator check, failed exactly when some row holds a
\* non-null value <= 0 in that column.
C19_ChecksReported ==
    (response # None /\ The(response).query_result # None) =>
        LET res == The(The(response).query_result)
            checks == The(response).sanity_checks
        IN /\ \E i \in DOMAIN checks :
                 /\ checks[i].check_name = "non_empty_check"
                 /\ checks[i].passed = (res.row_count # 0)
           /\ ColumnsNamed(res, {"count"}) # {} =>
                 \E i \in DOMAIN checks :
                    /\ checks[i].check_name = "denominator_check"
                    /\ checks[i].passed =
                          \A v \in ValuesIn(res, ColumnsNamed(res, {"count"})) : v > 0


\* C20: when the percent-range check is run, it fails whenever some row holds
\* a non-null value outside [0, 100] in any column whose name contains
\* "percent", also in one that is not the first such column.
C20_PercentRange ==
    (q_checks # None /\ (q_check_names = None \/ "percent" \in The(q_check_names))) =>
        LET res == The(q_result)
            checks == The(q_checks)
        IN (\E v \in ValuesIn(res, ColumnsNamed(res, PERCENT_NAMES)) : v < 0 \/ v > 100) =>
              \E i \in DOMAIN checks :
                 /\ checks[i].check_name = "percent_range_check"
                 /\ ~checks[i].passed


(***************************************************************************)
(* Join graph and path finder (app/schema_catalog.py)                      *)
(***************************************************************************)
CONFIDENCE_SCORES(confidence) ==
    CASE confidence = "high" -> 100
      [] confidence = "medium" -> 50
      [] confidence = "heuristic" -> 25
      [] OTHER -> 0

REL_TYPE_BONUSES(rel_type) ==
    CASE rel_type = "universal" -> 50
      [] rel_type = "table match" -> 30
      [] rel_type = "within_family" -> 10
      [] rel_type = "heuristic_home" -> 0 - 20
      [] OTHER -> 0

JoinEdge(from_table, from_column, to_table, to_column, confidence, rel_type, warning_from, warning_to) ==
    [from_table |-> from_table, from_column |-> from_column,
     to_table |-> to_table, to_column |-> to_column,
     confidence |-> confidence, rel_type |-> rel_type,
     warning_from |-> warning_from, warning_to |-> warning_to]

\* a variant that charges the warning penalty only for a warning on the
\* from side
score_edge_FromWarningOnly(edge) ==
    CONFIDENCE_SCORES(edge.confidence) + REL_TYPE_BONUSES(edge.rel_type)
    + (IF edge.warning_from # "" THEN 0 - 30 ELSE 0)

\* SchemaCatalog._score_edge
score_edge(edge) ==
    CONFIDENCE_SCORES(edge.confidence) + REL_TYPE_BONUSES(edge.rel_type)
    + (IF edge.warning_from # "" \/ edge.warning_to # "" THEN 0 - 30 ELSE 0)

\* _build_join_graph, the reverse of an edge
reverse_edge(edge) ==
    JoinEdge(edge.to_table, edge.to_column, edge.from_table, edge.from_column,
             edge.confidence, edge.rel_type, edge.warning_to, edge.warning_from)

\* _build_join_graph: graph.get(table, []), the edges that leave a table in
\* the order they were added
RECURSIVE build_join_graph(_, _)
build_join_graph(edges, table) ==
    IF edges = <<>> THEN <<>>
    ELSE (IF Head(edges).from_table = table THEN <<Head(edges)>> ELSE <<>>)
         \o (IF Head(edges).to_table = table THEN <<reverse_edge(Head(edges))>> ELSE <<>>)
         \o build_join_graph(Tail(edges), table)

JoinStep(edge) ==
    [from_table |-> edge.from_table, from_column |-> edge.from_column,
     to_table |-> edge.to_table, to_column |-> edge.to_column,
     confidence |-> edge.confidence, rel_type |-> edge.rel_type,
     score |-> score_edge(edge),
     warning |-> IF edge.warning_from # "" THEN edge.warning_from ELSE edge.warning_to]

RECURSIVE SumScores(_)
SumScores(steps) ==
    IF steps = <<>> THEN 0 ELSE Head(steps).score + SumScores(Tail(steps))

\* the warning texts of steps, as <<table, column, warning>>
StepWarnings(steps) ==
    LET warned == SelectSeq(steps, LAMBDA s : s.warning # "")
    IN [i \in DOMAIN warned |->
            <<warned[i].from_table, warned[i].from_column, warned[i].warning>>]

JoinPath(from_table, to_table, path) ==
    LET steps == [i \in DOMAIN path |-> JoinStep(path[i])]
    IN [from_table |-> from_table, to_table |-> to_table, steps |-> steps,
        total_score |-> SumScores(steps), warnings |-> StepWarnings(steps)]

\* find_join_path, the loop over the neighbours of one queue entry: the paths
\* found and the entries added to the queue
RECURSIVE Neighbours(_, _, _, _, _)
Neighbours(adjacent, entry, from_upper, to_upper, max_hops) ==
    IF adjacent = <<>> THEN [paths |-> <<>>, queue |-> <<>>]
    ELSE LET edge == Head(adjacent)
             rest == Neighbours(Tail(adjacent), entry, from_upper, to_upper, max_hops)
             new_path == Append(entry.path, edge)
         IN IF edge.to_table \in entry.visited THEN rest
            ELSE IF edge.to_table = to_upper
            THEN [rest EXCEPT !.paths = <<JoinPath(from_upper, to_upper, new_path)>> \o @]
            ELSE IF Len(new_path) < max_hops
            THEN [rest EXCEPT !.queue =
                     <<[current |-> edge.to_table, path |-> new_path,
                        visited |-> entry.visited \cup {edge.to_table}]>> \o @]
            ELSE rest

\* find_join_path, the loop over the queue
RECURSIVE Search(_, _, _, _, _)
Search(queue, edges, from_upper, to_upper, max_hops) ==
    IF queue = <<>> THEN <<>>
    ELSE LET entry == Head(queue)
         IN IF Len(entry.path) > max_hops
            THEN Search(Tail(queue), edges, from_upper, to_upper, max_hops)
            ELSE LET found == Neighbours(build_join_graph(edges, entry.current), entry,
                                         from_upper, to_upper, max_hops)
                 IN found.paths
                    \o Search(Tail(queue) \o found.queue, edges, from_upper, to_upper,
                              max_hops)

\* paths.sort(key=lambda p: (p.hop_count, -p.total_score)), a stable sort
RECURSIVE SortPaths(_)
SortPaths(paths) ==
    IF paths = <<>> THEN <<>>
    ELSE LET last == paths[Len(paths)]
             front == SortPaths(SubSeq(paths, 1, Len(paths) - 1))
             NotAfter(p) ==
                \/ Len(p.steps) < Len(last.steps)
                \/ Len(p.steps) = Len(last.steps) /\ p.total_score >= last.total_score
         IN SelectSeq(front, NotAfter) \o <<last>>
            \o SelectSeq(front, LAMBDA p : ~NotAfter(p))

\* the tables of the schema
SchemaTables == {"A", "B", "C", "D"}

\* SchemaCatalog.find_join_path
find_join_path(edges, from_table, to_table, max_hops) ==
    LET from_upper == upper(from_table)
        to_upper == upper(to_table)
    IN IF from_upper = to_upper THEN <<>>
       ELSE IF from_upper \notin SchemaTables \/ to_upper \notin SchemaTables THEN <<>>
       ELSE SortPaths(Search(<<[current |-> from_upper, path |-> <<>>,
                                visited |-> {from_upper}]>>,
                             edges, from_upper, to_upper, max_hops))

\* the default of max_hops
DEFAULT_MAX_HOPS == 3

\* SchemaCatalog.get_best_join: None, or Some(the first path)
get_best_join(edges, from_table, to_table) ==
    LET paths == find_join_path(edges, from_table, to_table, DEFAULT_MAX_HOPS)
    IN IF paths = <<>> THEN None ELSE Some(paths[1])


JoinRecommendation(tables, joins, total_score, warnings, unjoined) ==
    [tables |-> tables, joins |-> joins, total_score |-> total_score,
     warnings |-> warnings, unjoined |-> unjoined]

\* get_recommended_joins, the multi-hop branch: the steps of a path that lead
\* to a table not yet joined are added one after the other
RECURSIVE AddSteps(_, _)
AddSteps(steps, state) ==
    IF steps = <<>> THEN state
    ELSE LET step == Head(steps)
         IN AddSteps(Tail(steps),
                IF step.to_table \in state.joined THEN state
                ELSE [joined |-> state.joined \cup {step.to_table},
                      joins |-> Append(state.joins, step),
                      total_score |-> state.total_score + step.score,
                      warnings |-> state.warnings \o StepWarnings(<<step>>)])

\* get_recommended_joins, the while loop. The sets joined and remaining are
\* walked in an order the code does not fix, so the loop has a set of
\* outcomes: one for every order. unjoined holds the tables the warning
\* "Could not find join path to" names.
RECURSIVE Recommend(_, _, _, _)
Recommend(edges, tables_upper, remaining, state) ==
    IF remaining = {}
    THEN { JoinRecommendation(tables_upper, state.joins, state.total_score,
                              state.warnings, {}) }
    ELSE LET direct ==
                 { p \in state.joined \X remaining :
                     LET path == get_best_join(edges, p[1], p[2])
                     IN path # None /\ Len(The(path).steps) = 1 }
             first_step(p) == The(get_best_join(edges, p[1], p[2])).steps[1]
             best == { p \in direct :
                         \A q \in direct : first_step(q).score <= first_step(p).score }
         IN IF direct # {}
            THEN UNION { Recommend(edges, tables_upper, remaining \ {p[2]},
                             [joined |-> state.joined \cup {p[2]},
                              joins |-> Append(state.joins, first_step(p)),
                              total_score |-> state.total_score + first_step(p).score,
                              warnings |-> state.warnings
                                           \o StepWarnings(<<first_step(p)>>)]) :
                         p \in best }
            ELSE UNION {
                   LET reached == { t \in remaining :
                                      find_join_path(edges, source, t, 2) # <<>> }
                   IN IF reached = {}
                      THEN { JoinRecommendation(tables_upper, state.joins,
                                 state.total_score, state.warnings, remaining) }
                      ELSE UNION { Recommend(edges, tables_upper, remaining \ {target},
                                       AddSteps(find_join_path(edges, source, target, 2)[1].steps,
                                                state)) :
                                   target \in reached } :
                   source \in state.joined }

\* SchemaCatalog.get_recommended_joins: the results the call can return
get_recommended_joins(edges, tables, base_table) ==
    IF tables = <<>> THEN { JoinRecommendation(<<>>, <<>>, 0, <<>>, {}) }
    ELSE LET uppers == [i \in DOMAIN tables |-> upper(tables[i])]
             base == IF base_table = None THEN uppers[1] ELSE upper(The(base_table))
             tables_upper == IF base \in Range(uppers) THEN uppers ELSE <<base>> \o uppers
         IN Recommend(edges, tables_upper, Range(tables_upper) \ {base},
                      [joined |-> {base}, joins |-> <<>>, total_score |-> 0,
                       warnings |-> <<>>])

(***************************************************************************)
(* find_join_path and get_recommended_joins as functions: one call of each *)
(* per behaviour, inputs drawn in Init                                     *)
(***************************************************************************)
\* the largest max_hops of the model
MaxHops == 3

EdgeAB1 == JoinEdge("A", "k1", "B", "k1", "high", "universal", "", "")

EdgeAB2 == JoinEdge("A", "k2", "B", "k2", "heuristic", "heuristic_home", "", "home key")

\* the join edges schemas are made of
EdgePool ==
    << EdgeAB1,
       EdgeAB2,
       JoinEdge("B", "c", "C", "c", "medium", "table match", "", ""),
       JoinEdge("C", "d", "D", "d", "high", "within_family", "", ""),
       JoinEdge("D", "a", "A", "a", "heuristic", "", "check", ""),
       JoinEdge("C", "k1", "A", "k1", "medium", "within_family", "", "") >>

\* the edges of the pool picked by a set of indexes, in the order of the pool
RECURSIVE Picked(_, _)
Picked(pool, picks) ==
    IF pool = <<>> THEN <<>>
    ELSE (IF Len(pool) \in picks THEN Picked(SubSeq(pool, 1, Len(pool) - 1), picks)
                                       \o <<pool[Len(pool)]>>
          ELSE Picked(SubSeq(pool, 1, Len(pool) - 1), picks))

Schemas == { Picked(EdgePool, picks) : picks \in SUBSET (1..Len(EdgePool)) }

TableLists == { <<>>, <<"A", "B">>, <<"a", "B", "D">>, <<"D", "C", "A">>, <<"A", "X">> }

JoinArgs ==
    [from_table : {"A", "a", "C", "X"}, to_table : {"A", "B", "D"},
     max_hops : 0..MaxHops, tables : TableLists]

JoinInit ==
    /\ j_schema \in Schemas
    /\ j_args \in JoinArgs
    /\ j_paths = None
    /\ j_recommended = None
    /\ LimiterIdle
    /\ WindowIdle
    /\ OverlapIdle
    /\ DbIdle
    /\ ChatInit
    /\ catalog_file = FALSE
    /\ g_sql = <<>>
    /\ g_catalog = NoCatalog
    /\ g_strict = TRUE
    /\ g_result = None

\* paths = find_join_path(from_table, to_table, max_hops)
FindJoinPath ==
    /\ j_paths = None
    /\ j_paths' = Some(find_join_path(j_schema, j_args.from_table, j_args.to_table,
                                      j_args.max_hops))
    /\ UNCHANGED <<j_schema, j_args, j_recommended, guard_vars, chat_vars, db_vars,
                   limiter_vars, window_vars, inflight>>

\* recommendation = get_recommended_joins(tables)
RecommendJoins ==
    /\ j_paths # None
    /\ j_recommended = None
    /\ \E recommendation \in get_recommended_joins(j_schema, j_args.tables, None) :
          j_recommended' = Some(recommendation)
    /\ UNCHANGED <<j_schema, j_args, j_paths, guard_vars, chat_vars, db_vars,
                   limiter_vars, window_vars, inflight>>

JoinNext == FindJoinPath \/ RecommendJoins

JoinSpec == JoinInit /\ [][JoinNext]_vars


(***************************************************************************)
(* Join graph and path finder, claims                                      *)
(***************************************************************************)
j_searched == j_paths # None

\* the score of a step by the tables of bases, bonuses and the penalty
TableScore(step) ==
    (CASE step.confidence = "high" -> 100
       [] step.confidence = "medium" -> 50
       [] step.confidence = "heuristic" -> 25)
    + (CASE step.rel_type = "universal" -> 50
         [] step.rel_type = "table match" -> 30
         [] step.rel_type = "within_family" -> 10
         [] step.rel_type = "heuristic_home" -> 0 - 20
         [] OTHER -> 0)
    + (IF step.warning # "" THEN 0 - 30 ELSE 0)

\* the search is from A to B in a schema with both edges between A and B
TwoEdgesCase ==
    /\ j_searched
    /\ {EdgeAB1, EdgeAB2} \subseteq Range(j_schema)
    /\ upper(j_args.from_table) = "A"
    /\ j_args.to_table = "B"

\* the direct paths of the search, in the order returned
DirectScores ==
    LET direct == SelectSeq(The(j_paths), LAMBDA p : Len(p.steps) = 1)
    IN [i \in DOMAIN direct |-> direct[i].total_score]

\* C21 as stated: with the two edges between A and B the best path is the
\* (high, universal, no warning) edge, and the two scores are 150 and 5.
C21_ScoresAsStated ==
    TwoEdgesCase =>
        /\ The(j_paths)[1].steps = <<JoinStep(EdgeAB1)>>
        /\ DirectScores = <<150, 5>>

\* C21: every step of a returned path scores confidence base + relation
\* type bonus + warning penalty and nothing else, a path scores the sum of
\* its steps, and with the two edges between A and B the best path is the
\* (high, universal, no warning) edge, the two scores being 150 and -25.
C21_EdgeScore ==
    j_searched =>
        /\ \A i \in DOMAIN The(j_paths) :
              LET path == The(j_paths)[i]
              IN /\ \A k \in DOMAIN path.steps :
                       path.steps[k].score = TableScore(path.steps[k])
                 /\ path.total_score = SumScores(path.steps)
        /\ TwoEdgesCase =>
              /\ The(j_paths)[1].steps = <<JoinStep(EdgeAB1)>>
              /\ DirectScores = <<150, 0 - 25>>

\* both edges between A and B were found
C21_Witness ==
    /\ TwoEdgesCase
    /\ Len(The(j_paths)) >= 2
    /\ The(j_paths)[1].total_score = 150
    /\ The(j_paths)[2].steps = <<JoinStep(EdgeAB2)>>


\* the tables a path visits, in order
PathTables(path) ==
    <<path.steps[1].from_table>> \o [k \in DOMAIN path.steps |-> path.steps[k].to_table]

\* the columns joined by the steps of a path, read from its end to its start
ReversedJoins(path) ==
    [k \in DOMAIN path.steps |->
        LET step == path.steps[Len(path.steps) + 1 - k]
        IN <<step.to_table, step.to_column, step.from_table, step.from_column>>]

PathJoins(path) ==
    [k \in DOMAIN path.steps |->
        <<path.steps[k].from_table, path.steps[k].from_column,
          path.steps[k].to_table, path.steps[k].to_column>>]

\* what the claim asks of one returned path
WellFormedPath(path) ==
    /\ Len(path.steps) >= 1
    /\ NoDuplicates(PathTables(path))
    /\ PathTables(path)[1] = upper(j_args.from_table)
    /\ PathTables(path)[Len(path.steps) + 1] = upper(j_args.to_table)
    /\ \A k \in 1..(Len(path.steps) - 1) :
          path.steps[k].to_table = path.steps[k + 1].from_table

ReverseReturned(path) ==
    \E back \in Range(find_join_path(j_schema, j_args.to_table, j_args.from_table,
                                     j_args.max_hops)) :
        /\ PathJoins(back) = ReversedJoins(path)
        /\ back.total_score = path.total_score

\* C22: every path find_join_path returns has at most max_hops steps, visits
\* no table twice, starts at the source and ends at the destination, and its
\* reverse is returned with the same total score by the search in the
\* opposite direction.
C22_PathsBounded ==
    j_searched =>
        \A i \in DOMAIN The(j_paths) :
            LET path == The(j_paths)[i]
            IN /\ Len(path.steps) <= j_args.max_hops
               /\ WellFormedPath(path)
               /\ ReverseReturned(path)


\* the tables a recommendation has joined: its base table and the table each
\* of its joins leads to
JoinedTables(recommendation) ==
    {recommendation.tables[1]}
        \cup {recommendation.joins[k].to_table : k \in DOMAIN recommendation.joins}

j_recommendation == The(j_recommended)

\* every requested table is joined or named in the warning
AllAccountedFor(recommendation) ==
    \A t \in Range(recommendation.tables) :
        t \in JoinedTables(recommendation) \/ t \in recommendation.unjoined

\* C23: get_recommended_joins returns; every requested table is then joined
\* or named in the warning "Could not find join path to", and a table is named
\* there only if no direct edge and no two-hop path connects it to any table
\* already joined.
C23_WarningOnlyWhenUnreachable ==
    (j_recommended # None /\ j_recommendation.tables # <<>>) =>
        /\ AllAccountedFor(j_recommendation)
        /\ \A t \in j_recommendation.unjoined :
              \A s \in JoinedTables(j_recommendation) :
                  find_join_path(j_schema, s, t, 2) = <<>>


(***************************************************************************)
(* Login rate limiter (app/rate_limit.py)                                  *)
(***************************************************************************)
\* _AttemptRecord
AttemptRecord(failures, locked_until, timestamps) ==
    [failures |-> failures, locked_until |-> locked_until, timestamps |-> timestamps]

\* del self._attempts[ip] / self._attempts.pop(ip, None)
Forget(self, ip) ==
    [self EXCEPT !.attempts[ip] = None]

\* LoginRateLimiter.is_blocked: the value returned and the limiter afterwards
is_blocked(self, ip, now) ==
    IF self.attempts[ip] = None THEN [blocked |-> FALSE, self |-> self]
    ELSE LET record == The(self.attempts[ip])
         IN IF record.locked_until > now THEN [blocked |-> TRUE, self |-> self]
            ELSE IF record.locked_until > 0 /\ record.locked_until <= now
                 THEN [blocked |-> FALSE, self |-> Forget(self, ip)]
                 ELSE [blocked |-> FALSE, self |-> self]

\* LoginRateLimiter.remaining_seconds
remaining_seconds(self, ip, now) ==
    IF self.attempts[ip] = None THEN 0
    ELSE LET record == The(self.attempts[ip])
         IN IF record.locked_until > now THEN (record.locked_until - now) + 1 ELSE 0

\* LoginRateLimiter.record_failure
record_failure(self, ip, now) ==
    LET record == IF self.attempts[ip] = None THEN AttemptRecord(0, 0, <<>>)
                  ELSE The(self.attempts[ip])
        cutoff == now - self.window_seconds
        timestamps == Append(SelectSeq(record.timestamps, LAMBDA t : t > cutoff), now)
        failures == Len(timestamps)
    IN [self EXCEPT !.attempts[ip] =
            Some(AttemptRecord(failures,
                     IF failures >= self.max_failures
                     THEN now + self.lockout_seconds ELSE record.locked_until,
                     timestamps))]

\* record_success forgetting every IP
record_success_ClearsAll(self, ip) ==
    [self EXCEPT !.attempts = [other \in IPs |-> None]]

\* LoginRateLimiter.record_success
record_success(self, ip) ==
    Forget(self, ip)

\* LoginRateLimiter.cleanup: the IPs whose lockout has run out
expired(self, now) ==
    { ip \in IPs : /\ self.attempts[ip] # None
                   /\ The(self.attempts[ip]).locked_until > 0
                   /\ The(self.attempts[ip]).locked_until <= now }

\* LoginRateLimiter.cleanup: the count returned and the limiter afterwards
cleanup(self, now) ==
    [count |-> Cardinality(expired(self, now)),
     self |-> [self EXCEPT !.attempts =
                  [ip \in IPs |-> IF ip \in expired(self, now) THEN None
                                  ELSE self.attempts[ip]]]]

(***************************************************************************)
(* The limiter under calls in any order, with time passing between them    *)
(***************************************************************************)
\* the last instant of the model
MaxTime == 2

\* the most failures recorded for one IP between two of its successes
MaxRecorded == 4

\* the settings the limiter is built with
LimiterSettings ==
    { LoginRateLimiter(2, 2, 3), LoginRateLimiter(2, 2, 1) }

LimiterInit ==
    /\ limiter \in LimiterSettings
    /\ clock = 0
    /\ l_result = NoCall
    /\ recorded = [ip \in IPs |-> <<>>]
    /\ fresh = [ip \in IPs |-> 0]
    /\ JoinIdle
    /\ WindowIdle
    /\ OverlapIdle
    /\ DbIdle
    /\ ChatInit
    /\ catalog_file = FALSE
    /\ g_sql = <<>>
    /\ g_catalog = NoCatalog
    /\ g_strict = TRUE
    /\ g_result = None

\* time passes; a lockout that runs out starts the IP afresh
Tick ==
    /\ clock < MaxTime
    /\ clock' = clock + 1
    /\ fresh' = [ip \in IPs |->
                    IF /\ limiter.attempts[ip] # None
                       /\ The(limiter.attempts[ip]).locked_until > clock
                       /\ The(limiter.attempts[ip]).locked_until <= clock + 1
                    THEN 0 ELSE fresh[ip]]
    /\ UNCHANGED <<limiter, l_result, recorded, guard_vars, chat_vars, db_vars, join_vars,
                   window_vars, inflight>>

\* limiter.is_blocked(ip)
IsBlocked(ip) ==
    /\ \E call \in {is_blocked(limiter, ip, clock)} :
          /\ limiter' = call.self
          /\ l_result' = [op |-> "is_blocked", ip |-> ip, blocked |-> call.blocked,
                          count |-> 0]
    /\ UNCHANGED <<clock, recorded, fresh, guard_vars, chat_vars, db_vars, join_vars,
                   window_vars, inflight>>

\* limiter.record_failure(ip)
RecordFailure(ip) ==
    /\ Len(recorded[ip]) < MaxRecorded
    /\ limiter' = record_failure(limiter, ip, clock)
    /\ l_result' = [op |-> "record_failure", ip |-> ip, blocked |-> FALSE, count |-> 0]
    /\ recorded' = [recorded EXCEPT ![ip] = Append(@, clock)]
    /\ fresh' = [fresh EXCEPT ![ip] = @ + 1]
    /\ UNCHANGED <<clock, guard_vars, chat_vars, db_vars, join_vars,
                   window_vars, inflight>>

\* limiter.record_success(ip)
RecordSuccess(ip) ==
    /\ limiter' = record_success(limiter, ip)
    /\ l_result' = [op |-> "record_success", ip |-> ip, blocked |-> FALSE, count |-> 0]
    /\ recorded' = [recorded EXCEPT ![ip] = <<>>]
    /\ fresh' = [fresh EXCEPT ![ip] = 0]
    /\ UNCHANGED <<clock, guard_vars, chat_vars, db_vars, join_vars,
                   window_vars, inflight>>

\* limiter.cleanup()
Cleanup ==
    /\ \E call \in {cleanup(limiter, clock)} :
          /\ limiter' = call.self
          /\ l_result' = [op |-> "cleanup", ip |-> "", blocked |-> FALSE,
                          count |-> call.count]
    /\ UNCHANGED <<clock, recorded, fresh, guard_vars, chat_vars, db_vars, join_vars,
                   window_vars, inflight>>

\* POST /login from ip; verified tells whether the password matched
Login(ip, verified) ==
    /\ \E call \in {is_blocked(limiter, ip, clock)} :
          IF call.blocked
          THEN /\ limiter' = call.self
               /\ l_result' = [op |-> "login", ip |-> ip, blocked |-> TRUE,
                               count |-> remaining_seconds(call.self, ip, clock)]
               /\ UNCHANGED <<recorded, fresh>>
          ELSE IF ~verified
          THEN /\ Len(recorded[ip]) < MaxRecorded
               /\ limiter' = record_failure(call.self, ip, clock)
               /\ l_result' = [op |-> "login", ip |-> ip, blocked |-> FALSE, count |-> 401]
               /\ recorded' = [recorded EXCEPT ![ip] = Append(@, clock)]
               /\ fresh' = [fresh EXCEPT ![ip] = @ + 1]
          ELSE /\ limiter' = record_success(call.self, ip)
               /\ l_result' = [op |-> "login", ip |-> ip, blocked |-> FALSE, count |-> 302]
               /\ recorded' = [recorded EXCEPT ![ip] = <<>>]
               /\ fresh' = [fresh EXCEPT ![ip] = 0]
    /\ UNCHANGED <<clock, guard_vars, chat_vars, db_vars, join_vars,
                   window_vars, inflight>>

LimiterNext ==
    \/ Tick
    \/ \E ip \in IPs : IsBlocked(ip)
    \/ \E ip \in IPs : RecordFailure(ip)
    \/ \E ip \in IPs : RecordSuccess(ip)
    \/ Cleanup
    \/ \E ip \in IPs, verified \in BOOLEAN : Login(ip, verified)

LimiterSpec == LimiterInit /\ [][LimiterNext]_vars

LimiterTypeOK ==
    /\ clock \in 0..MaxTime
    /\ \A ip \in IPs : Len(recorded[ip]) <= MaxRecorded /\ fresh[ip] >= 0


\* is_blocked(ip) asked now
Blocked(ip) == is_blocked(limiter, ip, clock).blocked

WithinWindow(times) ==
    SelectSeq(times, LAMBDA t : t > clock - limiter.window_seconds)

\* the failures of an IP since its last success or lockout expiry
FreshFailures(ip) ==
    SubSeq(recorded[ip], Len(recorded[ip]) - fresh[ip] + 1, Len(recorded[ip]))

\* the last call recorded a failure of ip, at this instant
JustFailed(ip) ==
    /\ l_result.ip = ip
    /\ l_result.op = "record_failure" \/ (l_result.op = "login" /\ l_result.count = 401)
    /\ recorded[ip] # <<>>
    /\ recorded[ip][Len(recorded[ip])] = clock

\* the timestamps the limiter holds for ip
Timestamps(ip) ==
    IF limiter.attempts[ip] = None THEN <<>> ELSE The(limiter.attempts[ip]).timestamps

C24_FalseBelowThreshold ==
    \A ip \in IPs :
        Len(WithinWindow(recorded[ip])) < limiter.max_failures => ~Blocked(ip)

C24_TrueAtThreshold ==
    \A ip \in IPs :
        (JustFailed(ip) /\ Len(WithinWindow(FreshFailures(ip))) >= limiter.max_failures)
            => Blocked(ip)

C24_Pruned ==
    \A ip \in IPs :
        JustFailed(ip) => Timestamps(ip) = WithinWindow(Timestamps(ip))

\* C24: is_blocked(ip) is false while fewer than max_failures failures of the
\* IP lie within the last window_seconds, and true as soon as the
\* max_failures-th failure within the window is recorded; a record_failure
\* leaves no timestamp older than the window.
C24_Threshold ==
    /\ C24_FalseBelowThreshold
    /\ C24_TrueAtThreshold
    /\ C24_Pruned


\* C30: under every sequence of limiter calls, an IP that is not locked gets
\* locked only once max_failures failures have been recorded for it since its
\* last success or the expiry of its last lockout.
C30_LockedAfterFreshFailures ==
    [][\A ip \in IPs :
          (~Blocked(ip) /\ Blocked(ip)') => fresh'[ip] >= limiter.max_failures]_vars


\* the step is a call of one of the four methods, or a login, for ip
CalledFor(ip) ==
    /\ clock' = clock
    /\ l_result'.ip = ip
    /\ l_result'.op \in {"is_blocked", "record_failure", "record_success", "login"}

\* the record kept for ip: its failure count, lock state and timestamps
AttemptsOf(ip) == limiter.attempts[ip]

\* the lockout of ip was set and has run out
LockoutExpired(ip) ==
    /\ AttemptsOf(ip) # None
    /\ The(AttemptsOf(ip)).locked_until > 0
    /\ The(AttemptsOf(ip)).locked_until <= clock

\* C25: a call for one IP leaves the record and the is_blocked result of every
\* other IP as they were; cleanup removes only records whose own lockout has
\* expired and changes nothing else.
C25_PerIp ==
    [][/\ \A ip \in IPs :
             CalledFor(ip) =>
                 \A other \in IPs \ {ip} :
                     /\ AttemptsOf(other)' = AttemptsOf(other)
                     /\ Blocked(other)' = Blocked(other)
       /\ (clock' = clock /\ l_result'.op = "cleanup") =>
             \A ip \in IPs :
                 /\ AttemptsOf(ip)' # AttemptsOf(ip) =>
                        (LockoutExpired(ip) /\ AttemptsOf(ip)' = None)
                 /\ Blocked(ip)' = Blocked(ip)]_vars

\* a success was recorded for one IP while another one is locked and stays so
C25_Witness ==
    /\ l_result.op = "record_success"
    /\ l_result.ip = "1.1.1.1"
    /\ Blocked("2.2.2.2")
    /\ The(AttemptsOf("2.2.2.2")).failures >= limiter.max_failures


(***************************************************************************)
(* The history handed to the LLM (app/chat.py, app/llm.py)                 *)
(***************************************************************************)
\* the text of a message: what kind of text it is, the turn it was stored in
Content(kind, turn, text) == [kind |-> kind, turn |-> turn, text |-> text]

\* seq[-n:]
LastMessages(seq, n) ==
    IF Len(seq) > n THEN SubSeq(seq, Len(seq) - n + 1, Len(seq)) ELSE seq

\* the number of messages _build_messages keeps
KEPT_MESSAGES == 6

\* _build_messages handing on the whole history
build_messages_KeepsAll(user_question, conversation_history) ==
    [i \in DOMAIN conversation_history |->
        [role |-> conversation_history[i].role,
         content |-> conversation_history[i].content]]
    \o <<[role |-> "user", content |-> Content("generate", 0, user_question)]>>

\* SQLGenerator._build_messages
build_messages(user_question, conversation_history) ==
    LET kept == LastMessages(conversation_history, KEPT_MESSAGES)
    IN [i \in DOMAIN kept |-> [role |-> kept[i].role, content |-> kept[i].content]]
       \o <<[role |-> "user", content |-> Content("generate", 0, user_question)]>>

\* _retry_with_error: the history with the two messages about the failure
error_context(conversation_history, failed_sql, error, question) ==
    conversation_history
    \o <<[role |-> "assistant", content |-> Content("failed validation", 0, <<failed_sql, error>>)],
         [role |-> "user", content |-> Content("please fix", 0, <<question>>)]>>

\* the longest session of the model
MaxStored == 8

Questions == {"how many visits", "average stay"}

ValidationErrors == {"Unknown table", "SELECT * is not allowed", "Missing LIMIT"}

\* a session as earlier requests left it: user and assistant messages in turn
StoredSession(n) ==
    [i \in 1..n |->
        [role |-> IF i % 2 = 1 THEN "user" ELSE "assistant",
         content |-> Content("stored", i, <<>>),
         sql |-> None]]

WindowInit ==
    /\ w_messages \in { StoredSession(n) : n \in 0..MaxStored }
    /\ w_question \in Questions
    /\ w_history = <<>>
    /\ w_inputs = <<>>
    /\ JoinIdle
    /\ LimiterIdle
    /\ OverlapIdle
    /\ DbIdle
    /\ ChatInit
    /\ catalog_file = FALSE
    /\ g_sql = <<>>
    /\ g_catalog = NoCatalog
    /\ g_strict = TRUE
    /\ g_result = None

\* handle_message up to the first generator.generate call
Ask ==
    /\ w_inputs = <<>>
    /\ \E messages \in {Append(w_messages,
                               [role |-> "user",
                                content |-> Content("stored", Len(w_messages) + 1, <<>>),
                                sql |-> None])} :
       \E recent \in {get_conversation_history(messages, HISTORY_WINDOW)} :
          /\ w_messages' = messages
          /\ w_history' = recent
          /\ w_inputs' = <<build_messages(w_question, recent)>>
    /\ UNCHANGED <<w_question, guard_vars, chat_vars, db_vars, join_vars, limiter_vars,
                   inflight>>

\* _retry_with_error: the second generator.generate call
AskAgain ==
    /\ Len(w_inputs) = 1
    /\ \E failed_sql \in {"SELECT 1", ""}, error \in ValidationErrors :
          w_inputs' = Append(w_inputs,
                             build_messages(w_question,
                                 error_context(w_history, failed_sql, error, w_question)))
    /\ UNCHANGED <<w_messages, w_question, w_history, guard_vars, chat_vars, db_vars,
                   join_vars, limiter_vars, inflight>>

WindowNext == Ask \/ AskAgain

WindowSpec == WindowInit /\ [][WindowNext]_vars

\* the history part of an LLM input: all but the question it ends with
HistoryPart(input) == SubSeq(input, 1, Len(input) - 1)

\* the session as the LLM would be shown it
Conversation ==
    [i \in DOMAIN w_messages |->
        [role |-> w_messages[i].role, content |-> w_messages[i].content]]

\* part is made of the last messages of whole, in their order
MostRecentOf(part, whole) ==
    /\ Len(part) <= Len(whole)
    /\ \A i \in DOMAIN part : part[i] = whole[Len(whole) - Len(part) + i]

Smaller(a, b) == IF a < b THEN a ELSE b

\* C26: the history part of every LLM input holds at most 6 messages, the
\* most recent ones; on the retry call its last two messages are the two
\* messages about the failed validation, and the rest are the most recent
\* messages of the session.
C26_HistoryWindow ==
    /\ Len(w_inputs) >= 1 =>
          LET part == HistoryPart(w_inputs[1])
          IN /\ Len(part) = Smaller(6, Len(Conversation))
             /\ MostRecentOf(part, Conversation)
    /\ Len(w_inputs) >= 2 =>
          LET part == HistoryPart(w_inputs[2])
              n == Len(part)
          IN /\ n = Smaller(6, Len(Conversation) + 2)
             /\ part[n - 1].role = "assistant"
             /\ part[n - 1].content.kind = "failed validation"
             /\ part[n].role = "user"
             /\ part[n].content.kind = "please fix"
             /\ MostRecentOf(SubSeq(part, 1, n - 2), Conversation)

\* a retry on a session longer than the window: the two messages about the
\* failure have pushed two older messages out
C26_Witness ==
    /\ Len(w_inputs) = 2
    /\ Len(w_messages) > 6
    /\ Len(HistoryPart(w_inputs[2])) = 6
    /\ HistoryPart(w_inputs[2])[4].content.turn = Len(w_messages)
    /\ HistoryPart(w_inputs[2])[5].content.kind = "failed validation"


(***************************************************************************)
(* Unqualified columns and their own SELECT scope                          *)
(***************************************************************************)
\* the nodes of one SELECT scope: the nodes below the given ones, nested
\* SELECTs and what they hold left out
RECURSIVE ScopeQueue(_)
ScopeQueue(queue) ==
    IF queue = <<>> THEN <<>>
    ELSE <<Head(queue)>>
         \o ScopeQueue(Tail(queue)
                       \o SelectSeq(iter_expressions(Head(queue)),
                                    LAMBDA n : n.type # "Select"))

\* the unqualified columns written in the scope of a SELECT itself
OwnUnqualified(select) ==
    { lower(c.name) :
        c \in { c \in Range(Filter(ScopeQueue(iter_expressions(select)), {"Column"})) :
                  c.table = "" } }

\* the tables the FROM and JOIN clauses of a SELECT name themselves
OwnTables(select) ==
    Filter(ScopeQueue(Args(select, "from") \o Args(select, "joins")), {"Table"})

\* every SELECT of the statement reads one table of the catalog, and every
\* column is unqualified and exists in the table of the SELECT it is written in
OwnScopeColumnsExist(stmt, catalog) ==
    /\ \A c \in Range(find_all(stmt, {"Column"})) : c.table = ""
    /\ \A select \in Range(find_all(stmt, {"Select"})) :
          /\ Len(OwnTables(select)) = 1
          /\ table_exists(catalog, OwnTables(select)[1].name)
          /\ \A c \in OwnUnqualified(select) :
                column_exists(catalog, OwnTables(select)[1].name, c)

\* C27: in strict mode a query whose unqualified columns all exist in the
\* table of their own SELECT scope is not rejected with UnknownColumnError: a
\* column written only in a nested subquery is not attributed to the table of
\* the enclosing SELECT.
C27_OwnScopeOnly ==
    (/\ g_called
     /\ g_strict
     /\ g_catalog.kind # "None"
     /\ Len(g_sql) = 1
     /\ OwnScopeColumnsExist(g_sql[1], g_catalog))
        => The(g_result).error_type # "UnknownColumnError"


(***************************************************************************)
(* Names defined by WITH                                                   *)
(***************************************************************************)
\* the names the WITH clauses of a statement define
CteNames(stmt) == { upper(cte.alias) : cte \in Range(find_all(stmt, {"CTE"})) }

\* the statement has a WITH clause, and every table it reads is one of its
\* CTEs or a table of the catalog
ReadsCtesAndCatalog(stmt, catalog) ==
    /\ CteNames(stmt) # {}
    /\ \A t \in Range(find_all(stmt, {"Table"})) :
          upper(t.name) \in CteNames(stmt) \/ table_exists(catalog, t.name)

\* C28: in strict mode with a catalog, a SELECT under WITH that reads only
\* its CTEs and tables of the catalog is not rejected with UnknownTableError.
C28_CteNotATable ==
    (/\ g_called
     /\ g_strict
     /\ g_catalog.kind # "None"
     /\ Len(g_sql) = 1
     /\ ReadsCtesAndCatalog(g_sql[1], g_catalog))
        => The(g_result).error_type # "UnknownTableError"


(***************************************************************************)
(* handle_message calls that overlap (app/chat.py, app/session.py)         *)
(***************************************************************************)
\* the handle_message calls of the model
MaxOverlap == 2

Requests == 1..MaxOverlap

\* the ways _process_question ends: its five kinds of response, or an exception
Paths ==
    {"clarification", "no sql", "validation failure", "execution error", "success",
     "exception"}

\* a message of a session: the call that added it and the path it reports
Turn(role, request, path) ==
    [role |-> role, content |-> [request |-> request, path |-> path], sql |-> None]

Waiting == [pc |-> "idle", session_id |-> 0, path |-> "", history |-> <<>>]

OverlapInit ==
    /\ inflight = [r \in Requests |-> Waiting]
    /\ ChatInit
    /\ catalog_file = FALSE
    /\ g_sql = <<>>
    /\ g_catalog = NoCatalog
    /\ g_strict = TRUE
    /\ g_result = None
    /\ DbIdle
    /\ JoinIdle
    /\ LimiterIdle
    /\ WindowIdle

\* handle_message up to the await: the session is looked up or created, the
\* user message is added and the history is read
Begin(r, session_id) ==
    /\ inflight[r].pc = "idle"
    /\ \E sid \in {get_or_create_session(session_id)} :
       \E all \in {add_message(sessions, sid, Turn("user", r, ""))} :
          /\ sessions' = all
          /\ inflight' = [inflight EXCEPT ![r] =
                            [pc |-> "processing", session_id |-> sid, path |-> "",
                             history |-> get_conversation_history(all[sid],
                                                                  HISTORY_WINDOW)]]
    /\ UNCHANGED <<catalog_file, o_catalog, served, pc, req, history, gen_response, sql,
                   validations, gen_calls, exec_log, result, response, returned,
                   guard_vars, db_vars, join_vars, limiter_vars, window_vars>>

\* handle_message after the await: _process_question has returned a response
\* or raised, and the assistant message is added
Finish(r, path) ==
    /\ inflight[r].pc = "processing"
    /\ sessions' = add_message(sessions, inflight[r].session_id,
                               Turn("assistant", r, path))
    /\ inflight' = [inflight EXCEPT ![r].pc = "done", ![r].path = path]
    /\ UNCHANGED <<catalog_file, o_catalog, served, pc, req, history, gen_response, sql,
                   validations, gen_calls, exec_log, result, response, returned,
                   guard_vars, db_vars, join_vars, limiter_vars, window_vars>>

OverlapNext ==
    \/ \E r \in Requests, session_id \in 0..MaxOverlap : Begin(r, session_id)
    \/ \E r \in Requests, path \in Paths : Finish(r, path)

OverlapSpec == OverlapInit /\ [][OverlapNext]_vars

\* the places in a session of the messages a call added
PlacesOf(r, messages) ==
    { i \in DOMAIN messages : messages[i].content.request = r }

\* the session of a call, as the LLM would be shown it up to place n
ShownUpTo(messages, n) ==
    [i \in 1..n |-> [role |-> messages[i].role, content |-> messages[i].content]]

=============================================================================
